---------------------------- MODULE Spec2Model ----------------------------
(***************************************************************************)
(* Model of the interrupt driven random number generator of mupplet-core   *)
(* (src/src/mup_rng.h): the interrupt handler ustd_rng_pirq_master, the    *)
(* drain getRandomData and the self-test state machine of class Rng.       *)
(*                                                                         *)
(* Scaling.  A byte of the program has 8 bits, the entropy pool 512 cells  *)
(* and the histogram 256 bins.  The model keeps the code's arithmetic but  *)
(* works with bytes of BYTE_BITS bits, a pool of USTD_ENTROPY_POOL_SIZE    *)
(* cells and 2^BYTE_BITS bins; the three are bounds of the model.  The     *)
(* CRC mixing of the handler keeps its 16 bits.                            *)
(*                                                                         *)
(* Of the Serial output the model follows the stream markers, the hex data *)
(* and the line breaks of the data (variable serial), not the diagnostic   *)
(* text.  A marker stands for its text with the line breaks around it.     *)
(* The state LED is output only and is not modelled.                       *)
(***************************************************************************)
EXTENDS Integers, Sequences, FiniteSets, TLC

(***************************************************************************)
(* Bounds of the model.                                                    *)
(***************************************************************************)
\* bits of a byte (8 in the program: uint8_t, and the test at line 78)
BYTE_BITS == 2
\* cells of one entropy pool (512 in the program, line 16)
USTD_ENTROPY_POOL_SIZE == 3
\* handler invocations the model follows
MaxIrq == 8
\* bits of an unsigned long (32 in the program)
ULONG_BITS == 5
\* seconds of time(nullptr) the model follows
MaxTime == 12
\* bytes of one publish block (publishMax = 128 in the program, line 312)
publishMax == 2
\* messages on their way to one object the model follows at a time
MaxInbox == 1
\* messages handed to the scheduler the model follows
MaxOutbox == 2
\* the count of printed bytes the line break of the Serial data is tested
\* against (40 in the program, line 506)
printLine == 1

(***************************************************************************)
(* Program constants.                                                      *)
(***************************************************************************)
maxBits == 3
CRC_INIT == 65535
UINT16 == 65536
\* line 454: the self-test fails after more than 10 s without data
STALL_SECONDS == 10
\* line 551: a retest starts after more than 4 new interrupts
RETRY_IRQS == 4
\* line 351: the bins of rngHistogram, and the 256.0 of lines 362-363
HIST_SIZE == 256
\* lines 362-363: the digits of the significand of a float (IEEE single)
FLT_MANT_DIG == 24
ULONG == 2 ^ ULONG_BITS

\* interrupt indices: the program has USTD_MAX_RNG_PIRQS = 10, the model two
Sources == {0, 1}
\* values of a byte
ByteVals == 0 .. (2 ^ BYTE_BITS - 1)
\* the low 16 bits of micros() the model lets an interrupt arrive at
MicrosValues == {4660, 43981}

\* line 352: the drain buffer rngBuf holds one whole pool
rngBufSize == USTD_ENTROPY_POOL_SIZE
\* values of the constructor parameter selfTestSampleSize the model follows
SampleSizes == {0, 2}
\* seconds the model lets pass at a time: up to the stall time, and past it
ClockSteps == {STALL_SECONDS, STALL_SECONDS + 1}
\* what a field the constructor does not initialise may hold
Indeterminate == {0, 1}

VARIABLES
    entropy_pool, entropy_pool_read_ptr, entropy_pool_write_ptr,
    entropy_pool_size, currentByte, currentBitPtr, bit_cnt, last_bit, crc,
    irq_count_total, d_hist,
    \* the fields of the Rng objects, one object per interrupt index
    interruptIndex_input, selfTestSampleSize, irqsAttached, rngSampleMode,
    rngSelfTestState, rngHistogram, samples, testTimer, lastIrqCount,
    publishBuf,
    \* the argument _publishViaSerial of begin() and the field it sets
    publishViaSerial_arg, publishViaSerial,
    \* the topics of the messages on their way to subsMsg, the messages
    \* handed to pSched->publish, and what was written to Serial
    inbox, outbox, serial,
    \* the count of bytes printed since the last line break (line 481)
    print_cnt,
    \* whether interrupts are enabled, and the call of getRandomData that
    \* task code is in the middle of
    intr, call,
    \* where each object's loop() stands, and time(nullptr)
    pc, now,
    \* history (not program state): bytes appended by the handler, bytes
    \* handed out by getRandomData, the bits the corrector emitted, and
    \* the number of handler invocations followed; rec tells whether the
    \* specification keeps the history
    pushed, drained, emitted, irqs, rec,
    \* history: for each source the handler invocations that found room
    \* in the pool, each with its micros() and the delta it derived; and
    \* for each object the handler invocations since its loop() last read
    \* the interrupt counter (line 556), followed up to MaxIrq
    arrivals, unread

vars == << entropy_pool, entropy_pool_read_ptr, entropy_pool_write_ptr,
           entropy_pool_size, currentByte, currentBitPtr, bit_cnt, last_bit,
           crc, irq_count_total, d_hist, interruptIndex_input,
           selfTestSampleSize, irqsAttached, rngSampleMode, rngSelfTestState,
           rngHistogram, samples, testTimer, lastIrqCount, publishBuf,
           publishViaSerial_arg, publishViaSerial, inbox, outbox, serial,
           print_cnt, intr, call, pc, now, pushed, drained, emitted, irqs, rec,
           arrivals, unread >>

srcVars == << entropy_pool, entropy_pool_read_ptr, entropy_pool_write_ptr,
              entropy_pool_size, currentByte, currentBitPtr, bit_cnt,
              last_bit, crc, pushed, emitted, arrivals >>

rngVars == << rngSampleMode, rngSelfTestState, rngHistogram, samples,
              testTimer, publishBuf >>

cfgVars == << interruptIndex_input, selfTestSampleSize,
             publishViaSerial_arg, rec >>

msgVars == << inbox, outbox >>

critVars == << intr, call >>

(***************************************************************************)
(* The CRC16 CCITT bit shuffle of the handler (lines 44-62).               *)
(***************************************************************************)
\* x with bit k complemented
FlipBit(x, k) ==
    IF (x \div (2 ^ k)) % 2 = 1 THEN x - (2 ^ k) ELSE x + (2 ^ k)

\* x ^ 0x8408, the CRC16 CCITT polynomial: bits 15, 10 and 3
XorPoly(x) == FlipBit(FlipBit(FlipBit(x, 15), 10), 3)

\* one pass of the inner for loop: one bit of data into crc
CrcBit(c, data) ==
    IF (c % 2) # (data % 2) THEN XorPoly(c \div 2) ELSE c \div 2

RECURSIVE CrcByte(_, _, _)
CrcByte(c, data, i) ==
    IF i = 8 THEN c ELSE CrcByte(CrcBit(c, data), data \div 2, i + 1)

\* the do-while over the two bytes of dw (low byte first), then the
\* complement and the byte swap
CrcMix(c, curr) ==
    LET dw == curr % UINT16
        c1 == CrcByte(c, dw % 256, 0)
        c2 == CrcByte(c1, dw \div 256, 0)
        c3 == (UINT16 - 1) - c2
    IN  ((c3 * 256) % UINT16) + ((c3 \div 256) % 256)

(***************************************************************************)
(* The per-source state the handler and the drain work on, as a record.    *)
(***************************************************************************)
SourceState(i) ==
    [ pool |-> entropy_pool[i], rd |-> entropy_pool_read_ptr[i],
      wr |-> entropy_pool_write_ptr[i], size |-> entropy_pool_size[i],
      currentByte |-> currentByte[i], currentBitPtr |-> currentBitPtr[i],
      bit_cnt |-> bit_cnt[i], last_bit |-> last_bit[i], crc |-> crc[i],
      pushed |-> pushed[i], emitted |-> emitted[i],
      arrivals |-> arrivals[i] ]

\* EmitBit with the write cursor advanced without the wrap
EmitBitNoWrap(s) ==
    LET byte == ((s.currentByte * 2) + s.last_bit) % (2 ^ BYTE_BITS)
        ptr == s.currentBitPtr + 1
        e == [s EXCEPT !.emitted = Append(@, s.last_bit)]
    IN  IF ptr = BYTE_BITS
        THEN [e EXCEPT !.wr = s.wr + 1,
                       !.size = IF s.size + 1 > USTD_ENTROPY_POOL_SIZE
                                THEN USTD_ENTROPY_POOL_SIZE ELSE s.size + 1,
                       !.currentBitPtr = 0,
                       !.currentByte = 0,
                       !.pushed = Append(@, byte)]
        ELSE [e EXCEPT !.currentByte = byte, !.currentBitPtr = ptr]

\* EmitBit with the new bit entering above the bits already held
EmitBitLsbFirst(s) ==
    LET byte == (s.currentByte + s.last_bit * (2 ^ s.currentBitPtr))
                    % (2 ^ BYTE_BITS)
        ptr == s.currentBitPtr + 1
        e == [s EXCEPT !.emitted = Append(@, s.last_bit)]
    IN  IF ptr = BYTE_BITS
        THEN [e EXCEPT !.pool[s.wr] = byte,
                       !.wr = (s.wr + 1) % USTD_ENTROPY_POOL_SIZE,
                       !.size = IF s.size + 1 > USTD_ENTROPY_POOL_SIZE
                                THEN USTD_ENTROPY_POOL_SIZE ELSE s.size + 1,
                       !.currentBitPtr = 0,
                       !.currentByte = 0,
                       !.pushed = Append(@, byte)]
        ELSE [e EXCEPT !.currentByte = byte, !.currentBitPtr = ptr]

\* EmitBit appending the full byte without advancing the write cursor
EmitBitKeepCursor(s) ==
    LET byte == ((s.currentByte * 2) + s.last_bit) % (2 ^ BYTE_BITS)
        ptr == s.currentBitPtr + 1
        e == [s EXCEPT !.emitted = Append(@, s.last_bit)]
    IN  IF ptr = BYTE_BITS
        THEN [e EXCEPT !.pool[s.wr] = byte,
                       !.size = IF s.size + 1 > USTD_ENTROPY_POOL_SIZE
                                THEN USTD_ENTROPY_POOL_SIZE ELSE s.size + 1,
                       !.currentBitPtr = 0,
                       !.currentByte = 0,
                       !.pushed = Append(@, byte)]
        ELSE [e EXCEPT !.currentByte = byte, !.currentBitPtr = ptr]

\* lines 76-86: an emitted bit enters the accumulator; the full byte is
\* appended to the pool
EmitBit(s) ==
    LET byte == ((s.currentByte * 2) + s.last_bit) % (2 ^ BYTE_BITS)
        ptr == s.currentBitPtr + 1
        e == [s EXCEPT !.emitted = Append(@, s.last_bit)]
    IN  IF ptr = BYTE_BITS
        THEN [e EXCEPT !.pool[s.wr] = byte,
                       !.wr = (s.wr + 1) % USTD_ENTROPY_POOL_SIZE,
                       !.size = IF s.size + 1 > USTD_ENTROPY_POOL_SIZE
                                THEN USTD_ENTROPY_POOL_SIZE ELSE s.size + 1,
                       !.currentBitPtr = 0,
                       !.currentByte = 0,
                       !.pushed = Append(@, byte)]
        ELSE [e EXCEPT !.currentByte = byte, !.currentBitPtr = ptr]

\* VonNeumann emitting for a pair of equal bits too
VonNeumannKeepEqual(s, curBit) ==
    IF s.bit_cnt = 0
    THEN [s EXCEPT !.last_bit = curBit, !.bit_cnt = 1]
    ELSE [s EXCEPT !.currentByte = ((@ * 2) + s.last_bit) % (2 ^ BYTE_BITS),
                   !.currentBitPtr = (@ + 1) % BYTE_BITS,
                   !.bit_cnt = 0]

\* VonNeumann emitting the first bit of every pair, equal or not
VonNeumannEmitAll(s, curBit) ==
    IF s.bit_cnt = 0
    THEN [s EXCEPT !.last_bit = curBit, !.bit_cnt = 1]
    ELSE [EmitBit(s) EXCEPT !.bit_cnt = 0]

\* lines 69-89: the von Neumann extractor on one candidate bit
VonNeumann(s, curBit) ==
    IF s.bit_cnt = 0
    THEN [s EXCEPT !.last_bit = curBit, !.bit_cnt = 1]
    ELSE LET e == IF s.last_bit # curBit THEN EmitBit(s) ELSE s
         IN  [e EXCEPT !.bit_cnt = 0]

\* FeedBits feeding two bits more than maxBits
RECURSIVE FeedBitsWide(_, _, _)
FeedBitsWide(s, delta, i) ==
    IF i >= maxBits + 2 THEN s
    ELSE FeedBitsWide(VonNeumann(s, (delta \div (2 ^ i)) % 2), delta, i + 1)

\* line 68: the loop over the maxBits low bits of delta
RECURSIVE FeedBits(_, _, _)
FeedBits(s, delta, i) ==
    IF i >= maxBits THEN s
    ELSE FeedBits(VonNeumann(s, (delta \div (2 ^ i)) % 2), delta, i + 1)

\* the handler taking delta as the time since the invocation before
HandlerInterArrival(s, curr) ==
    IF s.size < USTD_ENTROPY_POOL_SIZE
    THEN LET last == IF s.arrivals = << >> THEN 0
                     ELSE s.arrivals[Len(s.arrivals)].curr
             d == (curr + UINT16 - last) % 256
             a == [ curr |-> curr, delta |-> d ]
         IN  FeedBits([s EXCEPT !.crc = CrcMix(s.crc, curr),
                                !.arrivals = Append(@, a)], d, 0)
    ELSE s

\* Handler without the test of line 40
HandlerNoFullTest(s, curr) ==
    LET c == CrcMix(s.crc, curr)
        a == [ curr |-> curr, delta |-> c % 256 ]
    IN  FeedBits([s EXCEPT !.crc = c, !.arrivals = Append(@, a)],
                 c % 256, 0)

\* lines 40-91: the handler's work on its source, curr = micros()
Handler(s, curr) ==
    IF s.size < USTD_ENTROPY_POOL_SIZE
    THEN LET c == CrcMix(s.crc, curr)
             a == [ curr |-> curr, delta |-> c % 256 ]
         IN  FeedBits([s EXCEPT !.crc = c, !.arrivals = Append(@, a)],
                      c % 256, 0)
    ELSE s

\* line 64: d_hist[delta]++, kept for the deltas seen
DHistAdd(h, delta) ==
    IF delta \in DOMAIN h THEN [h EXCEPT ![delta] = @ + 1]
    ELSE [d \in (DOMAIN h) \cup {delta} |-> IF d = delta THEN 1 ELSE h[d]]

(***************************************************************************)
(* getRandomData (lines 129-144).                                          *)
(***************************************************************************)
\* DrainLoop without the decrement of the count (line 140)
RECURSIVE DrainLoopKeepCount(_, _, _)
DrainLoopKeepCount(s, out, n) ==
    IF n = 0 THEN [s |-> s, out |-> out]
    ELSE DrainLoopKeepCount(
             [s EXCEPT !.rd = (s.rd + 1) % USTD_ENTROPY_POOL_SIZE],
             Append(out, s.pool[s.rd]), n - 1)

RECURSIVE DrainLoop(_, _, _)
DrainLoop(s, out, n) ==
    IF n = 0 THEN [s |-> s, out |-> out]
    ELSE DrainLoop([s EXCEPT !.rd = (s.rd + 1) % USTD_ENTROPY_POOL_SIZE,
                             !.size = s.size - 1],
                   Append(out, s.pool[s.rd]), n - 1)

\* getRandomData without the clamp of len to the count (lines 133-134)
getRandomDataNoClamp(s, len) ==
    LET len1 == IF len > USTD_ENTROPY_POOL_SIZE
                THEN USTD_ENTROPY_POOL_SIZE ELSE len
    IN  DrainLoop(s, << >>, len1)

getRandomData(s, len) ==
    LET len1 == IF len > USTD_ENTROPY_POOL_SIZE
                THEN USTD_ENTROPY_POOL_SIZE ELSE len
        len2 == IF len1 > s.size THEN s.size ELSE len1
    IN  DrainLoop(s, << >>, len2)

(***************************************************************************)
(* class Rng: the self-test and the loop, on a record of the object's      *)
(* fields.                                                                 *)
(***************************************************************************)
RngState(r) ==
    [ mode |-> rngSampleMode[r], st |-> rngSelfTestState[r],
      hist |-> rngHistogram[r], samples |-> samples[r],
      testTimer |-> testTimer[r], publishBuf |-> publishBuf[r],
      selfTestSampleSize |-> selfTestSampleSize[r] ]

\* startSelfTest leaving the sub-state as it is (line 347)
startSelfTestKeepState(o) == [o EXCEPT !.mode = "RSM_SELF_TEST"]

\* lines 345-348
startSelfTest(o) ==
    [o EXCEPT !.mode = "RSM_SELF_TEST", !.st = "RST_INIT"]

\* evalRngSelfTest without the upper bound of the band
evalRngSelfTestNoMax(o) ==
    LET min == o.selfTestSampleSize \div (2 * (2 ^ BYTE_BITS))
    IN  \A b \in ByteVals : ~(o.hist[b] < min)

\* the position of the highest bit of x > 0
RECURSIVE FloorLog2(_)
FloorLog2(x) == IF x < 2 THEN 0 ELSE 1 + FloorLog2(x \div 2)

\* (float)x for an unsigned long x, lines 362-363: x itself while it has
\* no more than FLT_MANT_DIG significant bits, else the nearest float, a
\* tie going to the even significand
ToFloat(x) ==
    IF x < 2 ^ FLT_MANT_DIG THEN x
    ELSE LET ulp == 2 ^ (FloorLog2(x) - FLT_MANT_DIG + 1)
             q == x \div ulp
             r == x % ulp
         IN  IF 2 * r > ulp \/ (2 * r = ulp /\ q % 2 = 1)
             THEN (q + 1) * ulp ELSE q * ulp

\* evalRngSelfTest with the upper bound at half the expected count
evalRngSelfTestHalfMax(o) ==
    LET bins == Cardinality(DOMAIN o.hist)
        f == ToFloat(o.selfTestSampleSize)
        min == f \div (bins * 2)
        max == f \div (bins * 2)
    IN  \A b \in DOMAIN o.hist : ~(o.hist[b] < min \/ o.hist[b] > max)

\* evalRngSelfTest with the upper bound at ten times the expected count
evalRngSelfTestWideMax(o) ==
    LET bins == Cardinality(DOMAIN o.hist)
        f == ToFloat(o.selfTestSampleSize)
        min == f \div (bins * 2)
        max == 10 * (f \div bins)
    IN  \A b \in DOMAIN o.hist : ~(o.hist[b] < min \/ o.hist[b] > max)

\* lines 359-406: every bin within [min, max].  The sample size is cast
\* to float; the quotient by 256.0 (the number of bins) and the quotient
\* and product by fugde = 2.0 are exact, and the casts to unsigned long
\* truncate
evalRngSelfTest(o) ==
    LET bins == Cardinality(DOMAIN o.hist)
        f == ToFloat(o.selfTestSampleSize)
        min == f \div (bins * 2)
        max == (f * 2) \div bins
    IN  \A b \in DOMAIN o.hist : ~(o.hist[b] < min \/ o.hist[b] > max)

\* CountBytes advancing the sample counter once for a drain, not once for
\* each of its bytes
RECURSIVE CountBytesPerDrain(_, _)
CountBytesPerDrain(o, out) ==
    IF out = << >> THEN o
    ELSE CountBytesPerDrain(
             [o EXCEPT !.hist[Head(out)] = @ + 1,
                       !.samples = IF Len(out) = 1 THEN @ + 1 ELSE @],
             Tail(out))

\* lines 449-452: the drained bytes enter the histogram
RECURSIVE CountBytes(_, _)
CountBytes(o, out) ==
    IF out = << >> THEN o
    ELSE CountBytes([o EXCEPT !.hist[Head(out)] = @ + 1, !.samples = @ + 1],
                    Tail(out))

\* rngSelfTest putting the bytes it drains into the publish block too
rngSelfTestBuffers(o, s, t) ==
    CASE o.st = "RST_INIT" ->
           [ o |-> [o EXCEPT !.testTimer = t,
                             !.hist = [b \in ByteVals |-> 0],
                             !.samples = 0,
                             !.st = "RST_RUNNING"],
             s |-> s, out |-> << >>, drains |-> 0 ]
      [] o.st = "RST_RUNNING" ->
           IF o.samples < o.selfTestSampleSize
           THEN LET d == getRandomData(s, rngBufSize)
                    c == [CountBytes(o, d.out) EXCEPT
                             !.publishBuf =
                                 IF Len(@) < publishMax /\ d.out # << >>
                                 THEN Append(@, Head(d.out)) ELSE @]
                IN  [ o |-> IF Len(d.out) = 0
                            THEN IF t - o.testTimer > STALL_SECONDS
                                 THEN [c EXCEPT !.st = "RST_FAILED"]
                                 ELSE c
                            ELSE [c EXCEPT !.testTimer = t],
                      s |-> d.s, out |-> d.out, drains |-> 1 ]
           ELSE [ o |-> [o EXCEPT !.st = "RST_SAMPLE_DONE"],
                  s |-> s, out |-> << >>, drains |-> 0 ]
      [] o.st = "RST_SAMPLE_DONE" ->
           [ o |-> [o EXCEPT !.st = IF evalRngSelfTest(o)
                                    THEN "RST_OK" ELSE "RST_FAILED"],
             s |-> s, out |-> << >>, drains |-> 0 ]
      [] OTHER -> [ o |-> o, s |-> s, out |-> << >>, drains |-> 0 ]

\* rngSelfTest keeping the sample counter in INIT (line 443)
rngSelfTestKeepSamples(o, s, t) ==
    CASE o.st = "RST_INIT" ->
           [ o |-> [o EXCEPT !.testTimer = t,
                             !.hist = [b \in ByteVals |-> 0],
                             !.st = "RST_RUNNING"],
             s |-> s, out |-> << >>, drains |-> 0 ]
      [] o.st = "RST_RUNNING" ->
           IF o.samples < o.selfTestSampleSize
           THEN LET d == getRandomData(s, rngBufSize)
                    c == CountBytes(o, d.out)
                IN  [ o |-> IF Len(d.out) = 0
                            THEN IF t - o.testTimer > STALL_SECONDS
                                 THEN [c EXCEPT !.st = "RST_FAILED"]
                                 ELSE c
                            ELSE [c EXCEPT !.testTimer = t],
                      s |-> d.s, out |-> d.out, drains |-> 1 ]
           ELSE [ o |-> [o EXCEPT !.st = "RST_SAMPLE_DONE"],
                  s |-> s, out |-> << >>, drains |-> 0 ]
      [] o.st = "RST_SAMPLE_DONE" ->
           [ o |-> [o EXCEPT !.st = IF evalRngSelfTest(o)
                                    THEN "RST_OK" ELSE "RST_FAILED"],
             s |-> s, out |-> << >>, drains |-> 0 ]
      [] OTHER -> [ o |-> o, s |-> s, out |-> << >>, drains |-> 0 ]

\* rngSelfTest draining in RUNNING whether the target is reached or not
rngSelfTestNoTarget(o, s, t) ==
    CASE o.st = "RST_INIT" ->
           [ o |-> [o EXCEPT !.testTimer = t,
                             !.hist = [b \in ByteVals |-> 0],
                             !.samples = 0,
                             !.st = "RST_RUNNING"],
             s |-> s, out |-> << >>, drains |-> 0 ]
      [] o.st = "RST_RUNNING" ->
           LET d == getRandomData(s, rngBufSize)
               c == CountBytes(o, d.out)
           IN  [ o |-> IF o.samples >= o.selfTestSampleSize
                       THEN [c EXCEPT !.st = "RST_SAMPLE_DONE"]
                       ELSE IF Len(d.out) = 0
                       THEN IF t - o.testTimer > STALL_SECONDS
                            THEN [c EXCEPT !.st = "RST_FAILED"]
                            ELSE c
                       ELSE [c EXCEPT !.testTimer = t],
                 s |-> d.s, out |-> d.out, drains |-> 1 ]
      [] o.st = "RST_SAMPLE_DONE" ->
           [ o |-> [o EXCEPT !.st = IF evalRngSelfTest(o)
                                    THEN "RST_OK" ELSE "RST_FAILED"],
             s |-> s, out |-> << >>, drains |-> 0 ]
      [] OTHER -> [ o |-> o, s |-> s, out |-> << >>, drains |-> 0 ]

\* rngSelfTest without the stall check of lines 453-463
rngSelfTestNoStall(o, s, t) ==
    CASE o.st = "RST_INIT" ->
           [ o |-> [o EXCEPT !.testTimer = t,
                             !.hist = [b \in ByteVals |-> 0],
                             !.samples = 0,
                             !.st = "RST_RUNNING"],
             s |-> s, out |-> << >>, drains |-> 0 ]
      [] o.st = "RST_RUNNING" ->
           IF o.samples < o.selfTestSampleSize
           THEN LET d == getRandomData(s, rngBufSize)
                    c == CountBytes(o, d.out)
                IN  [ o |-> IF Len(d.out) = 0 THEN c
                            ELSE [c EXCEPT !.testTimer = t],
                      s |-> d.s, out |-> d.out, drains |-> 1 ]
           ELSE [ o |-> [o EXCEPT !.st = "RST_SAMPLE_DONE"],
                  s |-> s, out |-> << >>, drains |-> 0 ]
      [] o.st = "RST_SAMPLE_DONE" ->
           [ o |-> [o EXCEPT !.st = IF evalRngSelfTest(o)
                                    THEN "RST_OK" ELSE "RST_FAILED"],
             s |-> s, out |-> << >>, drains |-> 0 ]
      [] OTHER -> [ o |-> o, s |-> s, out |-> << >>, drains |-> 0 ]

\* lines 436-479, t = time(nullptr); drains counts the calls of getRandomData
rngSelfTest(o, s, t) ==
    CASE o.st = "RST_INIT" ->
           [ o |-> [o EXCEPT !.testTimer = t,
                             !.hist = [b \in ByteVals |-> 0],
                             !.samples = 0,
                             !.st = "RST_RUNNING"],
             s |-> s, out |-> << >>, drains |-> 0 ]
      [] o.st = "RST_RUNNING" ->
           IF o.samples < o.selfTestSampleSize
           THEN LET d == getRandomData(s, rngBufSize)
                    c == CountBytes(o, d.out)
                IN  [ o |-> IF Len(d.out) = 0
                            THEN IF t - o.testTimer > STALL_SECONDS
                                 THEN [c EXCEPT !.st = "RST_FAILED"]
                                 ELSE c
                            ELSE [c EXCEPT !.testTimer = t],
                      s |-> d.s, out |-> d.out, drains |-> 1 ]
           ELSE [ o |-> [o EXCEPT !.st = "RST_SAMPLE_DONE"],
                  s |-> s, out |-> << >>, drains |-> 0 ]
      [] o.st = "RST_SAMPLE_DONE" ->
           [ o |-> [o EXCEPT !.st = IF evalRngSelfTest(o)
                                    THEN "RST_OK" ELSE "RST_FAILED"],
             s |-> s, out |-> << >>, drains |-> 0 ]
      [] OTHER -> [ o |-> o, s |-> s, out |-> << >>, drains |-> 0 ]

\* FillPublishBuf without the tests of the fill level (lines 488, 492)
FillPublishBufNoLimit(buf, out) == buf \o out

\* lines 488-496: the drained bytes enter the publish block while it has room
RECURSIVE FillPublishBuf(_, _)
FillPublishBuf(buf, out) ==
    IF out = << >> \/ Len(buf) >= publishMax THEN buf
    ELSE FillPublishBuf(Append(buf, Head(out)), Tail(out))

\* sampleRandomAndDistribute returning true on an empty drain too
sampleRandomAndDistributeTrue(o, s) ==
    LET d == getRandomData(s, rngBufSize)
    IN  [ o |-> [o EXCEPT !.publishBuf =
                    IF Len(@) < publishMax
                    THEN FillPublishBuf(@, d.out) ELSE @],
          s |-> d.s, out |-> d.out, drains |-> 1, ok |-> TRUE ]

\* lines 482-513; ok is the value returned
sampleRandomAndDistribute(o, s) ==
    LET d == getRandomData(s, rngBufSize)
    IN  IF Len(d.out) = 0
        THEN [ o |-> o, s |-> d.s, out |-> d.out, drains |-> 1, ok |-> FALSE ]
        ELSE [ o |-> [o EXCEPT !.publishBuf =
                          IF Len(@) < publishMax
                          THEN FillPublishBuf(@, d.out) ELSE @],
               s |-> d.s, out |-> d.out, drains |-> 1, ok |-> TRUE ]

\* loop() that never starts the retest
loopNoRetry(o, s, t, newIrqs) ==
    CASE o.mode = "RSM_SELF_TEST" ->
           LET x == rngSelfTest(o, s, t)
           IN  [ o |-> [x.o EXCEPT !.mode =
                           IF x.o.st = "RST_OK" THEN "RSM_OK"
                           ELSE IF x.o.st = "RST_FAILED" THEN "RSM_FAILED"
                           ELSE @],
                 s |-> x.s, out |-> x.out, drains |-> x.drains ]
      [] o.mode = "RSM_OK" ->
           LET x == sampleRandomAndDistribute(o, s)
           IN  [ o |-> IF x.ok THEN x.o
                       ELSE [x.o EXCEPT !.mode = "RSM_FAILED"],
                 s |-> x.s, out |-> x.out, drains |-> x.drains ]
      [] OTHER -> [ o |-> o, s |-> s, out |-> << >>, drains |-> 0 ]

\* loop() starting the retest in FAILED whatever the interrupt count
loopRetryAlways(o, s, t, newIrqs) ==
    CASE o.mode = "RSM_SELF_TEST" ->
           LET x == rngSelfTest(o, s, t)
           IN  [ o |-> [x.o EXCEPT !.mode =
                           IF x.o.st = "RST_OK" THEN "RSM_OK"
                           ELSE IF x.o.st = "RST_FAILED" THEN "RSM_FAILED"
                           ELSE @],
                 s |-> x.s, out |-> x.out, drains |-> x.drains ]
      [] o.mode = "RSM_OK" ->
           LET x == sampleRandomAndDistribute(o, s)
           IN  [ o |-> IF x.ok THEN x.o
                       ELSE [x.o EXCEPT !.mode = "RSM_FAILED"],
                 s |-> x.s, out |-> x.out, drains |-> x.drains ]
      [] o.mode = "RSM_FAILED" ->
           [ o |-> startSelfTest(o), s |-> s, out |-> << >>, drains |-> 0 ]
      [] OTHER -> [ o |-> o, s |-> s, out |-> << >>, drains |-> 0 ]

\* loop() starting the retest at RETRY_IRQS new interrupts already
loopRetryAtThreshold(o, s, t, newIrqs) ==
    CASE o.mode = "RSM_SELF_TEST" ->
           LET x == rngSelfTest(o, s, t)
           IN  [ o |-> [x.o EXCEPT !.mode =
                           IF x.o.st = "RST_OK" THEN "RSM_OK"
                           ELSE IF x.o.st = "RST_FAILED" THEN "RSM_FAILED"
                           ELSE @],
                 s |-> x.s, out |-> x.out, drains |-> x.drains ]
      [] o.mode = "RSM_OK" ->
           LET x == sampleRandomAndDistribute(o, s)
           IN  [ o |-> IF x.ok THEN x.o
                       ELSE [x.o EXCEPT !.mode = "RSM_FAILED"],
                 s |-> x.s, out |-> x.out, drains |-> x.drains ]
      [] o.mode = "RSM_FAILED" ->
           [ o |-> IF newIrqs >= RETRY_IRQS THEN startSelfTest(o) ELSE o,
             s |-> s, out |-> << >>, drains |-> 0 ]
      [] OTHER -> [ o |-> o, s |-> s, out |-> << >>, drains |-> 0 ]

\* lines 515-555: loop() up to the end of the switch; newIrqs is
\* getIrqCount() - lastIrqCount
loop(o, s, t, newIrqs) ==
    CASE o.mode = "RSM_SELF_TEST" ->
           LET x == rngSelfTest(o, s, t)
           IN  [ o |-> [x.o EXCEPT !.mode =
                           IF x.o.st = "RST_OK" THEN "RSM_OK"
                           ELSE IF x.o.st = "RST_FAILED" THEN "RSM_FAILED"
                           ELSE @],
                 s |-> x.s, out |-> x.out, drains |-> x.drains ]
      [] o.mode = "RSM_OK" ->
           LET x == sampleRandomAndDistribute(o, s)
           IN  [ o |-> IF x.ok THEN x.o
                       ELSE [x.o EXCEPT !.mode = "RSM_FAILED"],
                 s |-> x.s, out |-> x.out, drains |-> x.drains ]
      [] o.mode = "RSM_FAILED" ->
           [ o |-> IF newIrqs > RETRY_IRQS THEN startSelfTest(o) ELSE o,
             s |-> s, out |-> << >>, drains |-> 0 ]
      [] OTHER -> [ o |-> o, s |-> s, out |-> << >>, drains |-> 0 ]

(***************************************************************************)
(* Output: the hex text, the Serial stream and the published messages.     *)
(***************************************************************************)
\* lines 299-309: '0' + n below 10, 'A' + n - 10 from 10 on
HexDigit(n) ==
    IF n < 10
    THEN << "0", "1", "2", "3", "4", "5", "6", "7", "8", "9" >>[n + 1]
    ELSE << "A", "B", "C", "D", "E", "F" >>[n - 10 + 1]

\* lines 296-311: the two characters byteToHex writes for a byte
byteToHex(byte) == << HexDigit(byte \div 16), HexDigit(byte % 16) >>

\* lines 499-503: a "0" below 16, then Serial.print(byte, HEX), which
\* writes the hex digits of byte without leading zeros
SerialPrintByte(byte) ==
    (IF byte < 16 THEN << "0" >> ELSE << >>)
        \o (IF byte < 16 THEN << HexDigit(byte) >>
            ELSE << HexDigit(byte \div 16), HexDigit(byte % 16) >>)

\* lines 498-510: the loop over the drained bytes, from the count cnt of
\* bytes printed since the last line break; text is what is written and
\* cnt the count after the loop
RECURSIVE SerialPrintBytes(_, _)
SerialPrintBytes(out, cnt) ==
    IF out = << >> THEN [ text |-> << >>, cnt |-> cnt ]
    ELSE LET brk == cnt + 1 > printLine
             rest == SerialPrintBytes(Tail(out), IF brk THEN 0 ELSE cnt + 1)
         IN  [ text |-> SerialPrintByte(Head(out))
                          \o (IF brk THEN << "\n" >> ELSE << >>)
                          \o rest.text,
               cnt |-> rest.cnt ]

\* loopSerial with a STOP marker for a failed self-test too
loopSerialFailMarker(o, x, viaSerial, cnt) ==
    IF ~viaSerial THEN [ text |-> << >>, cnt |-> cnt ]
    ELSE CASE o.mode = "RSM_SELF_TEST" ->
                [ text |-> IF x.o.mode = "RSM_OK"
                            THEN << "===RNG-START===" >>
                            ELSE IF x.o.mode = "RSM_FAILED"
                            THEN << "===RNG-STOP===" >>
                            ELSE << >>,
                  cnt |-> cnt ]
           [] o.mode = "RSM_OK" ->
                IF x.o.mode = "RSM_FAILED"
                THEN [ text |-> << "===RNG-STOP===" >>, cnt |-> cnt ]
                ELSE SerialPrintBytes(x.out, cnt)
           [] OTHER -> [ text |-> << >>, cnt |-> cnt ]

\* loopSerial with no STOP marker
loopSerialNoStop(o, x, viaSerial, cnt) ==
    IF ~viaSerial THEN [ text |-> << >>, cnt |-> cnt ]
    ELSE CASE o.mode = "RSM_SELF_TEST" ->
                [ text |-> IF x.o.mode = "RSM_OK"
                            THEN << "===RNG-START===" >> ELSE << >>,
                  cnt |-> cnt ]
           [] o.mode = "RSM_OK" ->
                IF x.o.mode = "RSM_FAILED"
                THEN [ text |-> << >>, cnt |-> cnt ]
                ELSE SerialPrintBytes(x.out, cnt)
           [] OTHER -> [ text |-> << >>, cnt |-> cnt ]

\* what loop() writes to Serial on a tick that takes the object from o to
\* x.o and drained x.out: lines 523-526 (START), 497-511 (the data, by
\* sampleRandomAndDistribute when it returns true), 543-546 (STOP); cnt is
\* print_cnt
loopSerial(o, x, viaSerial, cnt) ==
    IF ~viaSerial THEN [ text |-> << >>, cnt |-> cnt ]
    ELSE CASE o.mode = "RSM_SELF_TEST" ->
                [ text |-> IF x.o.mode = "RSM_OK"
                            THEN << "===RNG-START===" >> ELSE << >>,
                  cnt |-> cnt ]
           [] o.mode = "RSM_OK" ->
                IF x.o.mode = "RSM_FAILED"
                THEN [ text |-> << "===RNG-STOP===" >>, cnt |-> cnt ]
                ELSE SerialPrintBytes(x.out, cnt)
           [] OTHER -> [ text |-> << >>, cnt |-> cnt ]

\* publish() answering every state with "failed"
publishAlwaysFailed(r, o) ==
    [ from |-> r, topic |-> "rng/state", body |-> "failed" ]

\* lines 328-343: the state message
publish(r, o) ==
    [ from |-> r, topic |-> "rng/state",
      body |-> CASE o.mode = "RSM_NONE" -> "none"
                 [] o.mode = "RSM_SELF_TEST" -> "self-test"
                 [] o.mode = "RSM_OK" -> "ok"
                 [] o.mode = "RSM_FAILED" -> "failed" ]

\* lines 319-321: the hex text of the publish block
RECURSIVE HexText(_)
HexText(block) ==
    IF block = << >> THEN << >>
    ELSE byteToHex(Head(block)) \o HexText(Tail(block))

\* line 313: buf has publishMax + 1 cells; byteToHex writes cells 2i, 2i+1
\* and the terminator at 2i+2 for byte i (line 320), so a block of n bytes
\* needs 2n + 1 cells
HexFits(n) == 2 * n + 1 <= publishMax + 1

\* line 313: the cells of buf
BufCells == 0 .. publishMax

\* lines 319-321, 300-309: the cells of buf the loop of publish_rng_data
\* writes for a block of n bytes: byteToHex(publishBuf[i], buf + i * 2)
\* writes buf[0], buf[1] and buf[2] of its argument
HexWrites(n) ==
    UNION { { 2 * i, 2 * i + 1, 2 * i + 2 } : i \in 0 .. (n - 1) }

\* what pSched->publish can read at buf once byteToHex has written past
\* its end: the whole text where the cells behind buf took it, or the
\* part that is inside buf
BufOverrun(hex) == { hex, SubSeq(hex, 1, publishMax) }

\* publish_rng_data answering in state OK only
publish_rng_dataGated(r, o) ==
    IF Len(o.publishBuf) = 0 \/ o.mode # "RSM_OK"
    THEN { [ o |-> o, msgs |-> << >> ] }
    ELSE LET hex == HexText(o.publishBuf)
             bodies == IF HexFits(Len(o.publishBuf)) THEN { hex }
                       ELSE BufOverrun(hex)
         IN  { [ o |-> [o EXCEPT !.publishBuf = << >>],
                 msgs |-> << [ from |-> r, topic |-> "rng/data",
                               body |-> b ] >> ] : b \in bodies }

\* lines 317-326: the outcomes of publish_rng_data; Len(publishBuf) is
\* publishBufPtr
publish_rng_data(r, o) ==
    IF Len(o.publishBuf) = 0
    THEN { [ o |-> o, msgs |-> << >> ] }
    ELSE LET hex == HexText(o.publishBuf)
             bodies == IF HexFits(Len(o.publishBuf)) THEN { hex }
                       ELSE BufOverrun(hex)
         IN  { [ o |-> [o EXCEPT !.publishBuf = << >>],
                 msgs |-> << [ from |-> r, topic |-> "rng/data",
                               body |-> b ] >> ] : b \in bodies }

(***************************************************************************)
(* Initial state: the globals as initialised at lines 18-30, the objects   *)
(* as constructed (lines 196-219, 315, 355).  samples, testTimer and       *)
(* rngHistogram are not initialised by the constructor.                    *)
(***************************************************************************)
\* task code is in no call of getRandomData
NoCall == [ pc |-> "none", irqNo |-> 0, len |-> 0, i |-> 0, pBuf |-> << >> ]

InitGlobals ==
    /\ entropy_pool = [i \in Sources |-> [c \in 0 .. (USTD_ENTROPY_POOL_SIZE - 1) |-> 0]]
    /\ entropy_pool_read_ptr = [i \in Sources |-> 0]
    /\ entropy_pool_write_ptr = [i \in Sources |-> 0]
    /\ entropy_pool_size = [i \in Sources |-> 0]
    /\ currentByte = [i \in Sources |-> 0]
    /\ currentBitPtr = [i \in Sources |-> 0]
    /\ bit_cnt = [i \in Sources |-> 0]
    /\ last_bit = [i \in Sources |-> 0]
    /\ crc = [i \in Sources |-> CRC_INIT]
    /\ irq_count_total = 0
    /\ d_hist = << >>
    /\ pushed = [i \in Sources |-> << >>]
    /\ drained = [i \in Sources |-> << >>]
    /\ emitted = [i \in Sources |-> << >>]
    /\ irqs = 0
    /\ arrivals = [i \in Sources |-> << >>]
    /\ unread = [r \in Sources |-> 0]
    /\ now = 0
    /\ intr = TRUE
    /\ call = NoCall
    /\ serial = << >>
    /\ outbox = << >>

InitRng ==
    /\ \E x \in {0, -1, Cardinality(Sources)} :
          interruptIndex_input = [r \in Sources |-> IF r = 0 THEN x ELSE r]
    /\ \E n \in SampleSizes : selfTestSampleSize = [r \in Sources |-> n]
    /\ irqsAttached = [r \in Sources |-> FALSE]
    /\ rngSampleMode = [r \in Sources |-> "RSM_NONE"]
    /\ rngSelfTestState = [r \in Sources |-> "RST_NONE"]
    /\ \E g \in Indeterminate :
          /\ rngHistogram = [r \in Sources |-> [b \in ByteVals |-> g]]
          /\ samples = [r \in Sources |-> g]
          /\ testTimer = [r \in Sources |-> g]
    /\ lastIrqCount = [r \in Sources |-> 0]
    /\ publishBuf = [r \in Sources |-> << >>]
    /\ \E b \in BOOLEAN : publishViaSerial_arg = [r \in Sources |-> b]
    /\ publishViaSerial = [r \in Sources |-> FALSE]
    /\ print_cnt = [r \in Sources |-> 0]
    /\ inbox = [r \in Sources |-> << >>]
    /\ pc = [r \in Sources |-> "idle"]

\* the source's variables take the values of record s; the history only
\* where it is kept
SetSource(i, s) ==
    /\ entropy_pool' = [entropy_pool EXCEPT ![i] = s.pool]
    /\ entropy_pool_read_ptr' = [entropy_pool_read_ptr EXCEPT ![i] = s.rd]
    /\ entropy_pool_write_ptr' = [entropy_pool_write_ptr EXCEPT ![i] = s.wr]
    /\ entropy_pool_size' = [entropy_pool_size EXCEPT ![i] = s.size]
    /\ currentByte' = [currentByte EXCEPT ![i] = s.currentByte]
    /\ currentBitPtr' = [currentBitPtr EXCEPT ![i] = s.currentBitPtr]
    /\ bit_cnt' = [bit_cnt EXCEPT ![i] = s.bit_cnt]
    /\ last_bit' = [last_bit EXCEPT ![i] = s.last_bit]
    /\ crc' = [crc EXCEPT ![i] = s.crc]
    /\ pushed' = IF rec THEN [pushed EXCEPT ![i] = s.pushed] ELSE pushed
    /\ emitted' = IF rec THEN [emitted EXCEPT ![i] = s.emitted] ELSE emitted
    /\ arrivals' = IF rec THEN [arrivals EXCEPT ![i] = s.arrivals]
                   ELSE arrivals

\* the object's variables take the values of record o
SetRng(r, o) ==
    /\ rngSampleMode' = [rngSampleMode EXCEPT ![r] = o.mode]
    /\ rngSelfTestState' = [rngSelfTestState EXCEPT ![r] = o.st]
    /\ rngHistogram' = [rngHistogram EXCEPT ![r] = o.hist]
    /\ samples' = [samples EXCEPT ![r] = o.samples]
    /\ testTimer' = [testTimer EXCEPT ![r] = o.testTimer]
    /\ publishBuf' = [publishBuf EXCEPT ![r] = o.publishBuf]

(***************************************************************************)
(* Actions.                                                                *)
(***************************************************************************)
\* the handler with one CRC state for all sources
ustd_rng_pirq_masterSharedCrc(irqno, curr) ==
    LET s == SourceState(irqno)
        t == Handler(s, curr)
    IN  /\ intr
        /\ irq_count_total' = (irq_count_total + 1) % ULONG
        /\ d_hist' = IF s.size < USTD_ENTROPY_POOL_SIZE
                     THEN DHistAdd(d_hist, t.crc % 256) ELSE d_hist
        /\ entropy_pool' = [entropy_pool EXCEPT ![irqno] = t.pool]
        /\ entropy_pool_read_ptr' = [entropy_pool_read_ptr EXCEPT ![irqno] = t.rd]
        /\ entropy_pool_write_ptr' = [entropy_pool_write_ptr EXCEPT ![irqno] = t.wr]
        /\ entropy_pool_size' = [entropy_pool_size EXCEPT ![irqno] = t.size]
        /\ currentByte' = [currentByte EXCEPT ![irqno] = t.currentByte]
        /\ currentBitPtr' = [currentBitPtr EXCEPT ![irqno] = t.currentBitPtr]
        /\ bit_cnt' = [bit_cnt EXCEPT ![irqno] = t.bit_cnt]
        /\ last_bit' = [last_bit EXCEPT ![irqno] = t.last_bit]
        /\ crc' = [i \in Sources |-> t.crc]
        /\ irqs' = IF irqs < MaxIrq THEN irqs + 1 ELSE irqs
        /\ unread' = [r \in Sources |->
                         IF unread[r] < MaxIrq THEN unread[r] + 1
                         ELSE unread[r]]
        /\ UNCHANGED << rngVars, cfgVars, msgVars, critVars,
                        publishViaSerial, serial, print_cnt, irqsAttached,
                        lastIrqCount, pc, now, drained, pushed, emitted,
                        arrivals >>

\* ustd_rng_pirq_master(irqno), lines 34-92, curr = micros()
ustd_rng_pirq_master(irqno, curr) ==
    LET s == SourceState(irqno)
        t == Handler(s, curr)
    IN  /\ intr
        /\ irq_count_total' = (irq_count_total + 1) % ULONG
        /\ d_hist' = IF s.size < USTD_ENTROPY_POOL_SIZE
                     THEN DHistAdd(d_hist, t.crc % 256) ELSE d_hist
        /\ SetSource(irqno, t)
        /\ irqs' = IF irqs < MaxIrq THEN irqs + 1 ELSE irqs
        /\ unread' = [r \in Sources |->
                         IF unread[r] < MaxIrq THEN unread[r] + 1
                         ELSE unread[r]]
        /\ UNCHANGED << rngVars, cfgVars, msgVars, critVars,
                        publishViaSerial, serial, print_cnt, irqsAttached,
                        lastIrqCount, pc, now, drained >>

\* a call getRandomData(irqNo, pBuf, len) from task code; interrupts are
\* off from line 132 to line 142
Drain(irqNo, len) ==
    LET s == SourceState(irqNo)
        r == getRandomData(s, len)
    IN  /\ SetSource(irqNo, r.s)
        /\ drained' = IF rec THEN [drained EXCEPT ![irqNo] = @ \o r.out]
                      ELSE drained
        /\ UNCHANGED << rngVars, cfgVars, msgVars, critVars,
                        publishViaSerial, serial, print_cnt, irqsAttached,
                        lastIrqCount, pc, now, irq_count_total, d_hist,
                        irqs, unread >>

\* begin() without the test of the interrupt index (line 259)
beginNoCheck(r) ==
    /\ ~irqsAttached[r]
    /\ publishViaSerial' = [publishViaSerial EXCEPT ![r] = publishViaSerial_arg[r]]
    /\ irqsAttached' = [irqsAttached EXCEPT ![r] = TRUE]
    /\ SetRng(r, startSelfTest(RngState(r)))
    /\ UNCHANGED << srcVars, cfgVars, msgVars, critVars, serial, print_cnt,
                    irq_count_total, d_hist, lastIrqCount, pc, now, drained,
                    irqs, unread >>

\* Rng::begin, lines 241-286
begin(r) ==
    /\ ~irqsAttached[r]
    /\ publishViaSerial' = [publishViaSerial EXCEPT ![r] = publishViaSerial_arg[r]]
    /\ IF interruptIndex_input[r] \in Sources
       THEN /\ irqsAttached' = [irqsAttached EXCEPT ![r] = TRUE]
            /\ SetRng(r, startSelfTest(RngState(r)))
       ELSE UNCHANGED << rngVars, irqsAttached >>
    /\ UNCHANGED << srcVars, cfgVars, msgVars, critVars, serial, print_cnt,
                    irq_count_total, d_hist, lastIrqCount, pc, now, drained,
                    irqs, unread >>

\* the difference of the counters without the wrap of unsigned long
NewIrqsNoWrap(r) == irq_count_total - lastIrqCount[r]

\* line 551: getIrqCount() - lastIrqCount in unsigned long, the raw
\* interrupts counted since object r last read the counter
NewIrqs(r) == (irq_count_total + ULONG - lastIrqCount[r]) % ULONG

\* Rng::loop, lines 515-555: the scheduled task up to the end of the switch
LoopBody(r) ==
    /\ irqsAttached[r]
    /\ pc[r] = "idle"
    /\ LET o == RngState(r)
           i == interruptIndex_input[r]
           s == SourceState(i)
           x == loop(o, s, now, NewIrqs(r))
       IN  /\ SetRng(r, x.o)
           /\ SetSource(i, x.s)
           /\ drained' = IF rec THEN [drained EXCEPT ![i] = @ \o x.out]
                         ELSE drained
           /\ LET w == loopSerial(o, x, publishViaSerial[r], print_cnt[r])
              IN  /\ serial' = serial \o w.text
                  /\ print_cnt' = [print_cnt EXCEPT ![r] = w.cnt]
    /\ pc' = [pc EXCEPT ![r] = "end"]
    /\ UNCHANGED << cfgVars, msgVars, critVars, publishViaSerial,
                    irqsAttached, irq_count_total, d_hist, lastIrqCount, now,
                    irqs, unread >>

\* Rng::loop, line 556: lastIrqCount = getIrqCount()
LoopEnd(r) ==
    /\ pc[r] = "end"
    /\ lastIrqCount' = [lastIrqCount EXCEPT ![r] = irq_count_total]
    /\ unread' = [unread EXCEPT ![r] = 0]
    /\ pc' = [pc EXCEPT ![r] = "idle"]
    /\ UNCHANGED << srcVars, rngVars, cfgVars, msgVars, critVars,
                    publishViaSerial, serial, print_cnt, irqsAttached,
                    irq_count_total, d_hist, now, drained, irqs >>

\* time(nullptr) advances
ClockTick ==
    \E d \in ClockSteps :
        /\ now + d <= MaxTime
        /\ now' = now + d
    /\ UNCHANGED << srcVars, rngVars, cfgVars, msgVars, critVars,
                    publishViaSerial, serial, print_cnt, irqsAttached, irq_count_total,
                    d_hist, lastIrqCount, pc, drained, irqs, unread >>

\* the topics the subscription of line 283 (name + "/rng/#") brings to
\* subsMsg: the two requests, and the object's own data message
Topics == { "rng/state/get", "rng/data/get", "rng/data" }

\* another task publishes a message with a topic below name + "/rng/"
Request(r, topic) ==
    /\ Len(inbox[r]) < MaxInbox
    /\ Len(outbox) + Len(inbox[r]) < MaxOutbox
    /\ inbox' = [inbox EXCEPT ![r] = Append(@, topic)]
    /\ UNCHANGED << srcVars, rngVars, cfgVars, critVars, outbox,
                    publishViaSerial, serial, print_cnt, irqsAttached, irq_count_total,
                    d_hist, lastIrqCount, pc, now, drained, irqs, unread >>

\* Rng::subsMsg, lines 559-565, on the oldest message for object r; the
\* subscription exists once begin() has attached the interrupt, and the
\* scheduler runs the callback between the calls of loop()
subsMsg(r) ==
    /\ irqsAttached[r]
    /\ pc[r] = "idle"
    /\ inbox[r] # << >>
    /\ inbox' = [inbox EXCEPT ![r] = Tail(@)]
    /\ LET topic == Head(inbox[r])
           o == RngState(r)
       IN  IF topic = "rng/state/get"
           THEN /\ outbox' = Append(outbox, publish(r, o))
                /\ UNCHANGED rngVars
           ELSE IF topic = "rng/data/get"
           THEN \E x \in publish_rng_data(r, o) :
                   /\ outbox' = outbox \o x.msgs
                   /\ SetRng(r, x.o)
           ELSE UNCHANGED << outbox, rngVars >>
    /\ UNCHANGED << srcVars, cfgVars, critVars, publishViaSerial, serial, print_cnt,
                    irqsAttached, irq_count_total, d_hist, lastIrqCount, pc,
                    now, drained, irqs, unread >>

\* the handler attached by begin() of the object of index i runs
Attached(i) ==
    \E r \in Sources : irqsAttached[r] /\ interruptIndex_input[r] = i

(***************************************************************************)
(* SpecRing: the handler of source 0 and calls of getRandomData.           *)
(***************************************************************************)
IrqRing ==
    /\ irqs < MaxIrq
    /\ \E curr \in MicrosValues \cup {255} : ustd_rng_pirq_master(0, curr)

DrainRing ==
    \E len \in {1, 2, USTD_ENTROPY_POOL_SIZE + 1} : Drain(0, len)

InitRing ==
    /\ InitGlobals
    /\ InitRng
    /\ ~publishViaSerial_arg[0]
    /\ interruptIndex_input[0] = 0
    /\ selfTestSampleSize[0] = 0
    /\ samples[0] = 0
    /\ rec = TRUE

NextRing == IrqRing \/ DrainRing

SpecRing == InitRing /\ [][NextRing]_vars

(***************************************************************************)
(* Spec: one Rng object on source 0, its interrupts, its task, the clock.  *)
(***************************************************************************)
Irq ==
    /\ irqs < MaxIrq
    /\ Attached(0)
    /\ \E curr \in MicrosValues : ustd_rng_pirq_master(0, curr)

Begin == begin(0)

Body == LoopBody(0)

End == LoopEnd(0)

Init == InitGlobals /\ InitRng /\ ~publishViaSerial_arg[0] /\ rec = TRUE

Next == Begin \/ Irq \/ Body \/ End \/ ClockTick

Spec == Init /\ [][Next]_vars

(***************************************************************************)
(* SpecLive: the generator of source 0 on a line that is silent until the  *)
(* self-test has failed and delivers interrupts from then on, followed up  *)
(* to the start of the retest.  The scheduler keeps running the task, and  *)
(* interrupts keep arriving, at most MaxBurst between two reads of the     *)
(* counter by the task.  The history is not kept.                          *)
(***************************************************************************)
MaxBurst == RETRY_IRQS + 2

IrqLive ==
    /\ Attached(0)
    /\ rngSampleMode[0] = "RSM_FAILED"
    /\ NewIrqs(0) < MaxBurst
    /\ \E curr \in {4660} : ustd_rng_pirq_master(0, curr)

BodyLive ==
    /\ ~(rngSampleMode[0] = "RSM_SELF_TEST" /\ irqs > 0)
    /\ LoopBody(0)

InitLive ==
    /\ InitGlobals
    /\ InitRng
    /\ ~publishViaSerial_arg[0]
    /\ interruptIndex_input[0] = 0
    /\ selfTestSampleSize[0] > 0
    /\ samples[0] = 0
    /\ rec = FALSE

NextLive == Begin \/ IrqLive \/ BodyLive \/ End \/ ClockTick

\* IrqLive can take a step exactly here: the handler always advances
\* irq_count_total
IrqLiveEnabled ==
    /\ Attached(0)
    /\ rngSampleMode[0] = "RSM_FAILED"
    /\ NewIrqs(0) < MaxBurst

\* the last conjunct is weak fairness of IrqLive, with its enabling
\* condition written out
SpecLive ==
    /\ InitLive
    /\ [][NextLive]_vars
    /\ WF_vars(BodyLive)
    /\ WF_vars(End)
    /\ ([]<>(~IrqLiveEnabled) \/ []<><<IrqLive>>_vars)

(***************************************************************************)
(* SpecTwo: two Rng objects, on sources 0 and 1; the line of source 1 is   *)
(* silent, interrupts arrive on the line of source 0 only.  The history   *)
(* is not kept.                                                            *)
(***************************************************************************)
IrqTwo ==
    /\ irqs < MaxIrq
    /\ Attached(0)
    /\ \E curr \in {4660} : ustd_rng_pirq_master(0, curr)

BeginTwo == \E r \in Sources : begin(r)

BodyTwo == \E r \in Sources : LoopBody(r)

EndTwo == \E r \in Sources : LoopEnd(r)

InitTwo ==
    /\ InitGlobals
    /\ InitRng
    /\ ~publishViaSerial_arg[0]
    /\ interruptIndex_input[0] = 0
    /\ selfTestSampleSize[0] > 0
    /\ samples[0] = 0
    /\ rec = FALSE

NextTwo == BeginTwo \/ IrqTwo \/ BodyTwo \/ EndTwo \/ ClockTick

SpecTwo == InitTwo /\ [][NextTwo]_vars

(***************************************************************************)
(* SpecMsg: the Rng object of source 0 with its interrupts, its task, the  *)
(* clock, the requests sent to it, and reads of the pool by other task     *)
(* code.                                                                   *)
(***************************************************************************)
IrqMsg ==
    /\ irqs < MaxIrq
    /\ Attached(0)
    /\ \E curr \in {4660} : ustd_rng_pirq_master(0, curr)

RequestMsg == \E topic \in Topics : Request(0, topic)

SubsMsg == subsMsg(0)

\* other task code calls getRandomData(0, buf, 1) between two ticks,
\* while the generator is not in state OK
ReadMsg ==
    /\ pc[0] = "idle"
    /\ rngSampleMode[0] # "RSM_OK"
    /\ entropy_pool_size[0] > 0
    /\ Drain(0, 1)

InitMsg ==
    /\ InitGlobals
    /\ InitRng
    /\ interruptIndex_input[0] = 0
    /\ samples[0] = 0
    /\ rec = TRUE

NextMsg ==
    \/ Begin
    \/ IrqMsg
    \/ Body
    \/ End
    \/ ClockTick
    \/ RequestMsg
    \/ SubsMsg
    \/ ReadMsg

SpecMsg == InitMsg /\ [][NextMsg]_vars

(***************************************************************************)
(* SpecCrit: the handler of source 0 and calls of getRandomData from task  *)
(* code, the call taken statement by statement (lines 129-144).  The       *)
(* handler runs only while interrupts are enabled.                         *)
(***************************************************************************)
\* what no statement of getRandomData touches
callFrame == << rngVars, cfgVars, msgVars, publishViaSerial, serial, print_cnt,
                irqsAttached, lastIrqCount, pc, now, irq_count_total, d_hist,
                irqs, unread, entropy_pool, entropy_pool_write_ptr,
                currentByte,
                currentBitPtr, bit_cnt, last_bit, crc, pushed, emitted,
                arrivals >>

\* lines 129-131: the call, and the clamp of len to the pool size
GetEnter(irqNo, len) ==
    /\ call.pc = "none"
    /\ call' = [ pc |-> "cli", irqNo |-> irqNo,
                 len |-> IF len > USTD_ENTROPY_POOL_SIZE
                         THEN USTD_ENTROPY_POOL_SIZE ELSE len,
                 i |-> 0, pBuf |-> << >> ]
    /\ UNCHANGED << callFrame, intr, entropy_pool_read_ptr,
                    entropy_pool_size, drained >>

\* noInterrupts() leaving the interrupts enabled
noInterruptsNoop ==
    /\ call.pc = "cli"
    /\ call' = [call EXCEPT !.pc = "clamp"]
    /\ UNCHANGED << callFrame, intr, entropy_pool_read_ptr,
                    entropy_pool_size, drained >>

\* line 132
noInterrupts ==
    /\ call.pc = "cli"
    /\ intr' = FALSE
    /\ call' = [call EXCEPT !.pc = "clamp"]
    /\ UNCHANGED << callFrame, entropy_pool_read_ptr, entropy_pool_size,
                    drained >>

\* lines 133-135: the clamp of len to the count
GetClamp ==
    /\ call.pc = "clamp"
    /\ call' = [call EXCEPT
                   !.pc = "loop",
                   !.len = IF @ > entropy_pool_size[call.irqNo]
                           THEN entropy_pool_size[call.irqNo] ELSE @]
    /\ UNCHANGED << callFrame, intr, entropy_pool_read_ptr,
                    entropy_pool_size, drained >>

\* lines 136-139: the loop test, the copy of one byte and the advance of
\* the read cursor
GetCopy ==
    /\ call.pc = "loop"
    /\ call.i < call.len
    /\ call' = [call EXCEPT
                   !.pc = "dec",
                   !.pBuf = Append(@, entropy_pool[call.irqNo]
                                        [entropy_pool_read_ptr[call.irqNo]])]
    /\ entropy_pool_read_ptr' =
           [entropy_pool_read_ptr EXCEPT
              ![call.irqNo] = (@ + 1) % USTD_ENTROPY_POOL_SIZE]
    /\ UNCHANGED << callFrame, intr, entropy_pool_size, drained >>

\* line 140, and i++ of line 136
GetDec ==
    /\ call.pc = "dec"
    /\ entropy_pool_size' = [entropy_pool_size EXCEPT ![call.irqNo] = @ - 1]
    /\ call' = [call EXCEPT !.pc = "loop", !.i = @ + 1]
    /\ UNCHANGED << callFrame, intr, entropy_pool_read_ptr, drained >>

\* line 142, once the loop is left
interrupts ==
    /\ call.pc = "loop"
    /\ call.i >= call.len
    /\ intr' = TRUE
    /\ call' = [call EXCEPT !.pc = "ret"]
    /\ UNCHANGED << callFrame, entropy_pool_read_ptr, entropy_pool_size,
                    drained >>

\* line 143: the caller has the bytes
GetReturn ==
    /\ call.pc = "ret"
    /\ drained' = IF rec THEN [drained EXCEPT ![call.irqNo] = @ \o call.pBuf]
                  ELSE drained
    /\ call' = NoCall
    /\ UNCHANGED << callFrame, intr, entropy_pool_read_ptr,
                    entropy_pool_size >>

IrqCrit ==
    /\ irqs < MaxIrq
    /\ \E curr \in MicrosValues : ustd_rng_pirq_master(0, curr)

CallCrit == \E len \in {1, USTD_ENTROPY_POOL_SIZE + 1} : GetEnter(0, len)

NextCrit ==
    \/ IrqCrit
    \/ CallCrit
    \/ noInterrupts
    \/ GetClamp
    \/ GetCopy
    \/ GetDec
    \/ interrupts
    \/ GetReturn

SpecCrit == InitRing /\ [][NextCrit]_vars

(***************************************************************************)
(* SpecTest: the generator of source 0 with its interrupts, its task and a *)
(* clock that never stops.  The scheduler keeps running the task and time  *)
(* keeps passing; the interrupts arrive in any pattern, MaxIrq of them at  *)
(* most.  The history is not kept.                                         *)
(*                                                                         *)
(* The program reads the clock only to store it in testTimer (lines 439,   *)
(* 465) and to compare time(nullptr) - testTimer with STALL_SECONDS (line  *)
(* 454).  ClockLive lets time pass without bound and keeps now within      *)
(* MaxTime by moving now and every testTimer back by the same amount once  *)
(* now would pass MaxTime; a difference beyond MaxTime, which is beyond    *)
(* STALL_SECONDS, is kept as MaxTime.                                      *)
(***************************************************************************)
ClockLive ==
    \E d \in ClockSteps :
        LET t == now + d
            back == IF t > MaxTime THEN t - MaxTime ELSE 0
        IN  /\ now' = t - back
            /\ testTimer' = [r \in Sources |->
                                IF testTimer[r] >= back
                                THEN testTimer[r] - back ELSE 0]
            /\ UNCHANGED << srcVars, cfgVars, msgVars, critVars,
                            rngSampleMode, rngSelfTestState, rngHistogram,
                            samples, publishBuf, publishViaSerial, serial,
                            print_cnt, irqsAttached, irq_count_total, d_hist,
                            lastIrqCount, pc, drained, irqs, unread >>

IrqTest ==
    /\ irqs < MaxIrq
    /\ Attached(0)
    /\ \E curr \in {4660} : ustd_rng_pirq_master(0, curr)

InitTest ==
    /\ InitGlobals
    /\ InitRng
    /\ ~publishViaSerial_arg[0]
    /\ interruptIndex_input[0] = 0
    /\ rec = FALSE

NextTest == Begin \/ IrqTest \/ Body \/ End \/ ClockLive

SpecTest ==
    /\ InitTest
    /\ [][NextTest]_vars
    /\ WF_vars(Body)
    /\ WF_vars(End)
    /\ WF_vars(ClockLive)

(***************************************************************************)
(* SpecSerial: the generator of source 0, begun with or without the output *)
(* to Serial, with its interrupts and its task.  Time stands still, so a   *)
(* self-test fails by its histogram only.                                  *)
(***************************************************************************)
InitSerial ==
    /\ InitGlobals
    /\ InitRng
    /\ interruptIndex_input[0] = 0
    /\ samples[0] = 0
    /\ rec = TRUE

NextSerial == Begin \/ Irq \/ Body \/ End

SpecSerial == InitSerial /\ [][NextSerial]_vars

(***************************************************************************)
(* SpecBlock: a generator of source 0 whose self-test passes at once       *)
(* (target 0), writing to Serial, with its interrupts, its task and the    *)
(* requests for its publish block.  Time stands still.                     *)
(***************************************************************************)
RequestBlock == Request(0, "rng/data/get")

InitBlock ==
    /\ InitGlobals
    /\ InitRng
    /\ interruptIndex_input[0] = 0
    /\ selfTestSampleSize[0] = 0
    /\ samples[0] = 0
    /\ publishViaSerial_arg[0]
    /\ rec = TRUE

NextBlock == Begin \/ Irq \/ Body \/ End \/ RequestBlock \/ SubsMsg

SpecBlock == InitBlock /\ [][NextBlock]_vars

(***************************************************************************)
(* SpecBegin: an Rng object constructed with an interrupt index inside or  *)
(* outside the range, begun with or without the output to Serial; once     *)
(* the handler is attached its interrupts arrive and its task runs.  Time  *)
(* stands still and the history is not kept.                               *)
(***************************************************************************)
InitBegin ==
    /\ InitGlobals
    /\ InitRng
    /\ samples[0] = 0
    /\ rec = FALSE

NextBegin == Begin \/ IrqTest \/ Body \/ End

SpecBegin == InitBegin /\ [][NextBegin]_vars

(***************************************************************************)
(* SpecPair: the handlers of the sources 0 and 1 and calls of              *)
(* getRandomData for either source.  The history is not kept.              *)
(***************************************************************************)
IrqPair ==
    /\ irqs < MaxIrq
    /\ \E i \in Sources, curr \in MicrosValues : ustd_rng_pirq_master(i, curr)

DrainPair == \E i \in Sources : Drain(i, rngBufSize)

InitPair ==
    /\ InitGlobals
    /\ InitRng
    /\ ~publishViaSerial_arg[0]
    /\ interruptIndex_input[0] = 0
    /\ selfTestSampleSize[0] = 0
    /\ samples[0] = 0
    /\ rec = FALSE

NextPair == IrqPair \/ DrainPair

SpecPair == InitPair /\ [][NextPair]_vars

(***************************************************************************)
(* SpecEval: the evaluation of the histogram at the size of the program,   *)
(* 256 bins and counts of 32 bits.  The object of source 0 has finished    *)
(* sampling (SELF_TEST, RST_SAMPLE_DONE); one bin of its histogram holds   *)
(* the count v and the others share the rest of the samples evenly,        *)
(* rounded up, so that samples has just reached selfTestSampleSize.  The   *)
(* line is silent.                                                         *)
(***************************************************************************)
\* values of selfTestSampleSize: the default 25600, sizes below and around
\* 256, and sizes with more than FLT_MANT_DIG significant bits
EvalSizes == { 1, 100, 255, 256, 384, 25600, 16777216, 16777343, 16777727,
               33554432, 536870912 }

\* counts of the one bin, for sample size n: none, the expected count, ten
\* times the expected count, and the counts around n / 512 and n / 128
EvalCounts(n) ==
    { v \in { 0, n \div HIST_SIZE, 10 * (n \div HIST_SIZE),
              (n \div (2 * HIST_SIZE)) - 1, n \div (2 * HIST_SIZE),
              (n \div (2 * HIST_SIZE)) + 1,
              ((2 * n) \div HIST_SIZE) - 1, (2 * n) \div HIST_SIZE,
              ((2 * n) \div HIST_SIZE) + 1 } : v >= 0 /\ v <= n }

\* the histogram with count v in bin j, the other bins sharing n - v
EvalHistogram(n, j, v) ==
    LET rest == (n - v + HIST_SIZE - 2) \div (HIST_SIZE - 1)
    IN  [b \in 0 .. (HIST_SIZE - 1) |-> IF b = j THEN v ELSE rest]

InitEval ==
    /\ InitGlobals
    /\ interruptIndex_input = [r \in Sources |-> r]
    /\ irqsAttached = [r \in Sources |-> r = 0]
    /\ rngSampleMode = [r \in Sources |-> IF r = 0 THEN "RSM_SELF_TEST"
                                           ELSE "RSM_NONE"]
    /\ rngSelfTestState = [r \in Sources |-> IF r = 0 THEN "RST_SAMPLE_DONE"
                                              ELSE "RST_NONE"]
    /\ \E n \in EvalSizes : \E j \in {0, HIST_SIZE - 1} :
       \E v \in EvalCounts(n) :
          LET h == EvalHistogram(n, j, v)
          IN  /\ selfTestSampleSize = [r \in Sources |-> n]
              /\ rngHistogram =
                     [r \in Sources |->
                         IF r = 0 THEN h ELSE [b \in ByteVals |-> 0]]
              /\ samples =
                     [r \in Sources |->
                         IF r = 0 THEN v + (HIST_SIZE - 1) * h[HIST_SIZE - 1 - j]
                         ELSE 0]
    /\ testTimer = [r \in Sources |-> 0]
    /\ lastIrqCount = [r \in Sources |-> 0]
    /\ publishBuf = [r \in Sources |-> << >>]
    /\ publishViaSerial_arg = [r \in Sources |-> FALSE]
    /\ publishViaSerial = [r \in Sources |-> FALSE]
    /\ print_cnt = [r \in Sources |-> 0]
    /\ inbox = [r \in Sources |-> << >>]
    /\ pc = [r \in Sources |-> "idle"]
    /\ rec = FALSE

NextEval == Body \/ End

SpecEval == InitEval /\ [][NextEval]_vars

(***************************************************************************)
(* Properties of the ring buffer, checked under SpecRing.                  *)
(***************************************************************************)
\* C1: for every source, after any sequence of handler invocations and
\* drains, the count of unread bytes is within [0, pool size] and both
\* cursors are within [0, pool size - 1]; the write cursor advances by one
\* modulo the pool size for each byte appended and the read cursor by one
\* modulo the pool size for each byte handed out.
C1_PoolBounds ==
    /\ [](\A i \in Sources :
            /\ entropy_pool_size[i] \in 0 .. USTD_ENTROPY_POOL_SIZE
            /\ entropy_pool_read_ptr[i] \in 0 .. (USTD_ENTROPY_POOL_SIZE - 1)
            /\ entropy_pool_write_ptr[i] \in 0 .. (USTD_ENTROPY_POOL_SIZE - 1))
    /\ [][\A i \in Sources :
            /\ entropy_pool_write_ptr'[i] =
                  (entropy_pool_write_ptr[i] + Len(pushed'[i]) - Len(pushed[i]))
                      % USTD_ENTROPY_POOL_SIZE
            /\ entropy_pool_read_ptr'[i] =
                  (entropy_pool_read_ptr[i] + Len(drained'[i]) - Len(drained[i]))
                      % USTD_ENTROPY_POOL_SIZE
            /\ Len(pushed'[i]) - Len(pushed[i]) \in {0, 1}]_vars

\* the pool is full after the write cursor has wrapped and bytes were drained
C1_Witness ==
    /\ Len(pushed[0]) > USTD_ENTROPY_POOL_SIZE
    /\ Len(drained[0]) > 0
    /\ entropy_pool_size[0] = USTD_ENTROPY_POOL_SIZE

\* C2: the concatenation of everything getRandomData handed out for a source
\* is a prefix of the sequence of bytes the handler appended to its pool.
C2_Fifo ==
    \A i \in Sources :
        /\ Len(drained[i]) <= Len(pushed[i])
        /\ drained[i] = SubSeq(pushed[i], 1, Len(drained[i]))

\* more bytes than the pool holds were handed out, with bytes still unread
C2_Witness ==
    /\ Len(drained[0]) > USTD_ENTROPY_POOL_SIZE
    /\ entropy_pool_size[0] > 0

\* the bits the corrector emits for hold h, held bit l and the candidate
\* bits of delta d
C9_Pair(x, y) == IF x # y THEN << x >> ELSE << >>

C9_Bit(d, k) == (d \div (2 ^ k)) % 2

C9_Emits(h, l, d) ==
    IF h = 0 THEN C9_Pair(C9_Bit(d, 0), C9_Bit(d, 1))
    ELSE C9_Pair(l, C9_Bit(d, 0)) \o C9_Pair(C9_Bit(d, 1), C9_Bit(d, 2))

\* C9: a handler invocation on a pool that is not full consumes its three
\* candidate bits in pairs, the pairing carried over from the invocation
\* before; a pair of different bits emits its first bit into the
\* accumulator, a pair of equal bits emits nothing and leaves accumulator
\* byte and bit count as they were; after each pair the hold is reset.
C9_VonNeumann ==
    [][(irqs' = irqs + 1 /\ entropy_pool_size[0] < USTD_ENTROPY_POOL_SIZE) =>
         LET d == crc'[0] % 256
             e == C9_Emits(bit_cnt[0], last_bit[0], d)
         IN  /\ emitted'[0] = emitted[0] \o e
             /\ bit_cnt'[0] = 1 - bit_cnt[0]
             /\ (bit_cnt[0] = 0 => last_bit'[0] = C9_Bit(d, 2))
             /\ currentBitPtr'[0] = (currentBitPtr[0] + Len(e)) % BYTE_BITS
             /\ Len(pushed'[0]) =
                   Len(pushed[0]) + ((currentBitPtr[0] + Len(e)) \div BYTE_BITS)
             /\ (e = << >> =>
                   /\ currentByte'[0] = currentByte[0]
                   /\ currentBitPtr'[0] = currentBitPtr[0]
                   /\ entropy_pool'[0] = entropy_pool[0])]_vars

\* three invocations: four pairs, of which some were emitted and some
\* discarded, and a bit held for the next invocation
C9_Witness ==
    /\ irqs = 3
    /\ bit_cnt[0] = 1
    /\ Len(emitted[0]) \in 1 .. 3
    /\ Len(drained[0]) = 0

\* the value of a sequence of bits, the first bit the most significant
RECURSIVE C10_Value(_)
C10_Value(bits) ==
    IF bits = << >> THEN 0
    ELSE 2 * C10_Value(SubSeq(bits, 1, Len(bits) - 1)) + bits[Len(bits)]

\* C10: the k-th byte appended to the pool is the k-th group of BYTE_BITS
\* emitted bits, first bit most significant; it is stored at the write
\* cursor, and the accumulator holds exactly the bits emitted since (none
\* right after a byte was appended).
C10_MsbFirst ==
    \A i \in Sources :
        LET n == Len(emitted[i])
        IN  /\ Len(pushed[i]) = n \div BYTE_BITS
            /\ \A k \in 1 .. Len(pushed[i]) :
                  pushed[i][k] =
                     C10_Value(SubSeq(emitted[i], (k - 1) * BYTE_BITS + 1,
                                      k * BYTE_BITS))
            /\ currentBitPtr[i] = n % BYTE_BITS
            /\ currentByte[i] =
                  C10_Value(SubSeq(emitted[i], n - (n % BYTE_BITS) + 1, n))
            /\ (Len(pushed[i]) > 0 =>
                  entropy_pool[i][(entropy_pool_write_ptr[i]
                                   + USTD_ENTROPY_POOL_SIZE - 1)
                                  % USTD_ENTROPY_POOL_SIZE]
                     = pushed[i][Len(pushed[i])])

\* a byte whose first and last bit differ was appended
C10_Witness ==
    /\ Len(pushed[0]) > 0
    /\ emitted[0][1] # emitted[0][BYTE_BITS]
    /\ currentBitPtr[0] = 0
    /\ currentByte[0] = 0

(***************************************************************************)
(* Properties of the self-test state machine, checked under Spec.          *)
(***************************************************************************)
\* a step of object r is the body of its loop()
TickOf(r) == pc[r] = "idle" /\ pc'[r] = "end"

\* the tolerance band of the histogram for a target sample count
BandMin(size) == size \div (2 * (2 ^ BYTE_BITS))

BandMax(size) == (2 * size) \div (2 ^ BYTE_BITS)

\* C3: the generator state becomes OK only by a step of the self-test in
\* sub-state SAMPLE_DONE that finds every bin of the histogram within the
\* tolerance band, and bytes enter the publish block only in state OK.
C3_OkOnlyAfterPass ==
    [][\A r \in Sources :
         /\ (rngSampleMode[r] # "RSM_OK" /\ rngSampleMode'[r] = "RSM_OK") =>
               /\ TickOf(r)
               /\ rngSampleMode[r] = "RSM_SELF_TEST"
               /\ rngSelfTestState[r] = "RST_SAMPLE_DONE"
               /\ rngSelfTestState'[r] = "RST_OK"
               /\ \A b \in ByteVals :
                     /\ rngHistogram[r][b] >= BandMin(selfTestSampleSize[r])
                     /\ rngHistogram[r][b] <= BandMax(selfTestSampleSize[r])
         /\ (publishBuf'[r] # publishBuf[r]) => rngSampleMode[r] = "RSM_OK"]_vars

\* the generator is OK after a self-test that counted bytes
C3_Witness ==
    /\ rngSampleMode[0] = "RSM_OK"
    /\ selfTestSampleSize[0] > 0
    /\ samples[0] >= selfTestSampleSize[0]

\* C4 as claimed: no step moves the generator out of OK.
C4_NoExitFromOk ==
    [][\A r \in Sources :
         rngSampleMode[r] = "RSM_OK" => rngSampleMode'[r] = "RSM_OK"]_vars

\* C4 amended: in state OK every tick drains the pool; a tick whose drain
\* returns at least one byte leaves the state OK, a tick whose drain
\* returns no byte moves it to FAILED, and nothing else moves it out of OK.
C4_OkUntilEmptyDrain ==
    [][\A r \in Sources :
         rngSampleMode[r] = "RSM_OK" =>
            IF TickOf(r)
            THEN LET i == interruptIndex_input[r]
                 IN  /\ entropy_pool_size'[i] = 0
                     /\ Len(drained'[i]) = Len(drained[i]) + entropy_pool_size[i]
                     /\ rngSampleMode'[r] =
                           IF entropy_pool_size[i] = 0
                           THEN "RSM_FAILED" ELSE "RSM_OK"
            ELSE rngSampleMode'[r] = "RSM_OK"]_vars

\* the generator left OK on an empty drain, and stayed OK on a drain before
C4_Witness ==
    /\ rngSampleMode[0] = "RSM_FAILED"
    /\ rngSelfTestState[0] = "RST_OK"
    /\ Len(publishBuf[0]) > 0

\* C5: a tick in RUNNING below the target that drains no byte more than
\* STALL_SECONDS after the timer was started moves the self-test and the
\* generator to FAILED; the timer is started by INIT and restarted by every
\* drain that returns bytes, and within the time the self-test keeps running.
C5_Stall ==
    [][\A r \in Sources :
         LET i == interruptIndex_input[r]
         IN  /\ ( /\ TickOf(r)
                  /\ rngSampleMode[r] = "RSM_SELF_TEST"
                  /\ rngSelfTestState[r] = "RST_RUNNING"
                  /\ samples[r] < selfTestSampleSize[r] ) =>
                    IF entropy_pool_size[i] = 0
                    THEN IF now - testTimer[r] > STALL_SECONDS
                         THEN /\ rngSelfTestState'[r] = "RST_FAILED"
                              /\ rngSampleMode'[r] = "RSM_FAILED"
                         ELSE /\ rngSelfTestState'[r] = "RST_RUNNING"
                              /\ rngSampleMode'[r] = "RSM_SELF_TEST"
                              /\ testTimer'[r] = testTimer[r]
                    ELSE /\ testTimer'[r] = now
                         /\ rngSelfTestState'[r] = "RST_RUNNING"
                         /\ rngSampleMode'[r] = "RSM_SELF_TEST"
             /\ ( /\ TickOf(r)
                  /\ rngSampleMode[r] = "RSM_SELF_TEST"
                  /\ rngSelfTestState[r] = "RST_INIT" ) =>
                    testTimer'[r] = now]_vars

\* the self-test failed below its target, after the stall time
C5_Witness ==
    /\ rngSampleMode[0] = "RSM_FAILED"
    /\ rngSelfTestState[0] = "RST_FAILED"
    /\ samples[0] < selfTestSampleSize[0]
    /\ now - testTimer[0] > STALL_SECONDS

\* C6: a tick in FAILED that finds no new raw interrupt keeps the state
\* FAILED; a tick that finds more than RETRY_IRQS new raw interrupts moves
\* the generator to SELF_TEST with sub-state INIT.
C6_Retry ==
    [][\A r \in Sources :
         (TickOf(r) /\ rngSampleMode[r] = "RSM_FAILED") =>
            /\ NewIrqs(r) = 0 =>
                  /\ rngSampleMode'[r] = "RSM_FAILED"
                  /\ rngSelfTestState'[r] = rngSelfTestState[r]
            /\ NewIrqs(r) > RETRY_IRQS =>
                  /\ rngSampleMode'[r] = "RSM_SELF_TEST"
                  /\ rngSelfTestState'[r] = "RST_INIT"]_vars

\* a tick in FAILED has started the retest (begin() leaves pc at idle)
C6_Witness ==
    /\ rngSampleMode[0] = "RSM_SELF_TEST"
    /\ rngSelfTestState[0] = "RST_INIT"
    /\ pc[0] = "end"

(***************************************************************************)
(* The retry, checked under SpecLive (C7) and SpecTwo (C8).                *)
(***************************************************************************)
\* C7 as claimed: with interrupts arriving at whatever rate and ticks
\* running, a FAILED generator eventually re-enters SELF_TEST.
C7_RetryAtAnyRate ==
    [](rngSampleMode[0] = "RSM_FAILED" => <>(rngSampleMode[0] = "RSM_SELF_TEST"))

\* C7 amended: with ticks running, a FAILED generator that has counted more
\* than RETRY_IRQS raw interrupts since the end of its previous tick
\* re-enters SELF_TEST, and it leaves FAILED by such a tick only.
C7_RetryOnBurst ==
    /\ ( /\ rngSampleMode[0] = "RSM_FAILED"
         /\ pc[0] = "idle"
         /\ NewIrqs(0) > RETRY_IRQS ) ~> (rngSampleMode[0] = "RSM_SELF_TEST")
    /\ [][(rngSampleMode[0] = "RSM_FAILED" /\ rngSampleMode'[0] # "RSM_FAILED") =>
            /\ TickOf(0)
            /\ NewIrqs(0) > RETRY_IRQS
            /\ rngSampleMode'[0] = "RSM_SELF_TEST"]_vars

\* a burst has started the retest
C7_Witness ==
    /\ rngSampleMode[0] = "RSM_SELF_TEST"
    /\ rngSelfTestState[0] = "RST_INIT"
    /\ pc[0] = "end"
    /\ irqs > RETRY_IRQS

\* C8: a generator in FAILED whose own line is silent stays FAILED,
\* whatever arrives on the line of another source (under SpecTwo the line
\* of source 1 is silent).
C8_SilentLineStaysFailed ==
    [][rngSampleMode[1] = "RSM_FAILED" => rngSampleMode'[1] = "RSM_FAILED"]_vars

(***************************************************************************)
(* The full pool and the drain, checked under SpecRing.                    *)
(***************************************************************************)
\* the handler invocations counted in d_hist: those that found room
RECURSIVE C11_Counted(_, _)
C11_Counted(h, S) ==
    IF S = {} THEN 0
    ELSE LET d == CHOOSE d \in S : TRUE
         IN  h[d] + C11_Counted(h, S \ {d})

\* C11: a handler invocation for a source whose pool holds
\* USTD_ENTROPY_POOL_SIZE unread bytes counts the interrupt and changes
\* nothing else: the pool, both cursors, the count, the accumulator byte
\* and its bit count, the held bit and its flag, the CRC and the delta
\* histogram stay as they were, and nothing is appended or emitted.
C11_FullPoolFrame ==
    [][(irq_count_total' # irq_count_total
            /\ entropy_pool_size[0] = USTD_ENTROPY_POOL_SIZE) =>
         /\ irq_count_total' = (irq_count_total + 1) % ULONG
         /\ UNCHANGED << entropy_pool, entropy_pool_read_ptr,
                         entropy_pool_write_ptr, entropy_pool_size,
                         currentByte, currentBitPtr, bit_cnt, last_bit, crc,
                         d_hist, pushed, emitted >>]_vars

\* the pool is full and the handler has run on the full pool: more
\* invocations were counted than found room
C11_Witness ==
    /\ entropy_pool_size[0] = USTD_ENTROPY_POOL_SIZE
    /\ irqs > C11_Counted(d_hist, DOMAIN d_hist)
    /\ irq_count_total = irqs

\* the unread bytes of a source state, oldest first
C12_Unread(s) ==
    [k \in 1 .. s.size |-> s.pool[(s.rd + k - 1) % USTD_ENTROPY_POOL_SIZE]]

C12_Min(a, b) == IF a < b THEN a ELSE b

\* the values of len the calls are checked for
C12_Lens == 0 .. (USTD_ENTROPY_POOL_SIZE + 2)

\* C12: getRandomData(irqNo, buf, len) returns n = min(len, pool size,
\* count at entry) and hands out the n oldest unread bytes in FIFO order;
\* it advances the read cursor by n modulo the pool size, takes n off the
\* count and leaves the write cursor, the pool and the unread bytes that
\* remain as they were; on an empty pool n = 0 and nothing changes.  Every
\* step of the model that hands out bytes is such a call.
C12_Drain ==
    /\ [](\A len \in C12_Lens :
            LET s == SourceState(0)
                r == getRandomData(s, len)
                n == C12_Min(C12_Min(len, USTD_ENTROPY_POOL_SIZE), s.size)
            IN  /\ Len(r.out) = n
                /\ r.out = SubSeq(C12_Unread(s), 1, n)
                /\ r.s = [s EXCEPT
                             !.rd = (s.rd + n) % USTD_ENTROPY_POOL_SIZE,
                             !.size = s.size - n]
                /\ C12_Unread(r.s) = SubSeq(C12_Unread(s), n + 1, s.size)
                /\ (s.size = 0 => r.s = s /\ r.out = << >>))
    /\ [][drained' # drained =>
            LET s == SourceState(0)
                n == Len(drained'[0]) - Len(drained[0])
            IN  /\ n \in 1 .. s.size
                /\ SubSeq(drained'[0], Len(drained[0]) + 1, Len(drained'[0]))
                       = SubSeq(C12_Unread(s), 1, n)
                /\ entropy_pool_read_ptr'[0] =
                       (s.rd + n) % USTD_ENTROPY_POOL_SIZE
                /\ entropy_pool_size'[0] = s.size - n
                /\ UNCHANGED << entropy_pool, entropy_pool_write_ptr >>]_vars

\* bytes were handed out and the unread bytes that remain wrap around the
\* end of the pool
C12_Witness ==
    /\ Len(drained[0]) > 0
    /\ entropy_pool_size[0] > 1
    /\ entropy_pool_read_ptr[0] + entropy_pool_size[0] > USTD_ENTROPY_POOL_SIZE

(***************************************************************************)
(* The critical section of getRandomData, checked under SpecCrit.          *)
(***************************************************************************)
\* the statements of getRandomData that read or write the shared state
C13_InSection == call.pc \in {"clamp", "loop", "dec"}

\* C13: the handler never runs between the first and the last access of a
\* getRandomData call to the shared pool state: interrupts are disabled
\* during all of them.  Whenever the handler can run, the count and the
\* cursors agree and the unread bytes are the bytes appended and not yet
\* taken, so it never sees a read cursor advanced without the count taken
\* down; and the bytes a call takes are the oldest unread ones, whatever
\* the interleaving.
C13_MutualExclusion ==
    /\ [](C13_InSection => ~intr)
    /\ [][irq_count_total' # irq_count_total => ~C13_InSection]_vars
    /\ [](intr =>
            /\ (entropy_pool_read_ptr[0] + entropy_pool_size[0])
                   % USTD_ENTROPY_POOL_SIZE = entropy_pool_write_ptr[0]
            /\ C12_Unread(SourceState(0)) =
                   SubSeq(pushed[0], Len(drained[0]) + Len(call.pBuf) + 1,
                          Len(pushed[0])))
    /\ [](/\ Len(drained[0]) + Len(call.pBuf) <= Len(pushed[0])
          /\ drained[0] \o call.pBuf =
                 SubSeq(pushed[0], 1, Len(drained[0]) + Len(call.pBuf)))

\* a call stands between the advance of the read cursor and the decrement
\* of the count, after interrupts have run and an earlier call has returned
C13_Witness ==
    /\ call.pc = "dec"
    /\ ~intr
    /\ irqs > 2
    /\ Len(drained[0]) > 0

(***************************************************************************)
(* The start of a self-test, checked under Spec.                           *)
(***************************************************************************)
\* the counts of a histogram, summed over the bins of S
RECURSIVE C14_Total(_, _)
C14_Total(h, S) ==
    IF S = {} THEN 0
    ELSE LET b == CHOOSE b \in S : TRUE
         IN  h[b] + C14_Total(h, S \ {b})

\* C14: a start of the self-test puts the object in SELF_TEST(INIT),
\* whatever it held before; the tick that finds INIT zeroes every bin of
\* the histogram and the sample counter, sets the stall timer to the
\* current time and moves to RUNNING in that same tick.  While a run is
\* sampling, the sample counter is the sum of the bins, so nothing of an
\* earlier run (or of the uninitialised fields) is counted.
C14_StartResets ==
    /\ [][\A r \in Sources :
            (TickOf(r) /\ rngSampleMode[r] = "RSM_SELF_TEST"
                      /\ rngSelfTestState[r] = "RST_INIT") =>
               /\ rngHistogram'[r] = [b \in ByteVals |-> 0]
               /\ samples'[r] = 0
               /\ testTimer'[r] = now
               /\ rngSelfTestState'[r] = "RST_RUNNING"
               /\ rngSampleMode'[r] = "RSM_SELF_TEST"]_vars
    /\ [](\A r \in Sources :
            (rngSampleMode[r] = "RSM_SELF_TEST"
                /\ rngSelfTestState[r] \in {"RST_RUNNING", "RST_SAMPLE_DONE"}) =>
               samples[r] = C14_Total(rngHistogram[r], ByteVals))

\* a retest has just passed INIT after a run that had counted bytes
C14_Witness ==
    /\ rngSampleMode[0] = "RSM_SELF_TEST"
    /\ rngSelfTestState[0] = "RST_RUNNING"
    /\ samples[0] = 0
    /\ pc[0] = "end"
    /\ Len(drained[0]) > 0

\* C15: when the self-test restarts, the pool of the source is reset: after
\* the tick that finds SELF_TEST(INIT) again, bytes having been drained by
\* an earlier run, the pool holds no unread byte and the read cursor, the
\* write cursor and the count are zero.
C15_RestartClearsPool ==
    [][\A r \in Sources :
         (TickOf(r) /\ rngSampleMode[r] = "RSM_SELF_TEST"
                   /\ rngSelfTestState[r] = "RST_INIT"
                   /\ interruptIndex_input[r] \in Sources
                   /\ Len(drained[interruptIndex_input[r]]) > 0) =>
            /\ entropy_pool_size'[interruptIndex_input[r]] = 0
            /\ entropy_pool_read_ptr'[interruptIndex_input[r]] = 0
            /\ entropy_pool_write_ptr'[interruptIndex_input[r]] = 0]_vars

C16_Marker(viaSerial, from, to) ==
    IF viaSerial /\ from = "RSM_SELF_TEST" /\ to = "RSM_OK"
    THEN << "===RNG-START===" >>
    ELSE IF viaSerial /\ from = "RSM_OK" /\ to = "RSM_FAILED"
    THEN << "===RNG-STOP===" >>
    ELSE << >>

C17_Digits ==
    << "0", "1", "2", "3", "4", "5", "6", "7",
       "8", "9", "A", "B", "C", "D", "E", "F" >>

\* the byte two hex characters stand for
C17_Byte(hi, lo) ==
    LET v(c) == (CHOOSE k \in 1 .. 16 : C17_Digits[k] = c) - 1
    IN  16 * v(hi) + v(lo)

\* body is the hex text of block: two characters for each byte, in order
C17_Encodes(body, block) ==
    /\ Len(body) = 2 * Len(block)
    /\ \A k \in 1 .. Len(block) :
          C17_Byte(body[2 * k - 1], body[2 * k]) = block[k]

\* C17: a data/get request delivered while the publish block holds bytes
\* publishes one rng/data message whose body carries every byte of the
\* block, at most publishMax, as two hex characters each, and empties the
\* block; delivered while the block is empty it sends nothing.
C17_DataGet ==
    [][(inbox[0] # << >> /\ inbox'[0] = Tail(inbox[0])
           /\ Head(inbox[0]) = "rng/data/get") =>
         IF publishBuf[0] = << >>
         THEN outbox' = outbox /\ publishBuf'[0] = << >>
         ELSE /\ Len(publishBuf[0]) <= publishMax
              /\ Len(outbox') = Len(outbox) + 1
              /\ SubSeq(outbox', 1, Len(outbox)) = outbox
              /\ outbox'[Len(outbox')].topic = "rng/data"
              /\ C17_Encodes(outbox'[Len(outbox')].body, publishBuf[0])
              /\ publishBuf'[0] = << >>]_vars

\* the hex characters in the Serial stream
C18_IsHex(x) == x \notin {"===RNG-START===", "===RNG-STOP===", "\n"}

\* C18: reading is not gated on the generator state.  In every state
\* other than OK getRandomData hands out the unread bytes of the pool, and
\* a read by other task code in such a state takes the oldest unread byte;
\* a data/get request delivered while the publish block holds bytes sends
\* a data message and empties the block, whatever the state.
C18_ReadsNotGated ==
    /\ [](rngSampleMode[0] # "RSM_OK" =>
            getRandomData(SourceState(0), rngBufSize).out
               = C12_Unread(SourceState(0)))
    /\ [][(pc' = pc /\ Len(drained'[0]) > Len(drained[0])) =>
            /\ rngSampleMode[0] # "RSM_OK"
            /\ drained'[0] = Append(drained[0],
                                    entropy_pool[0][entropy_pool_read_ptr[0]])
            /\ entropy_pool_size'[0] = entropy_pool_size[0] - 1]_vars
    /\ [][(inbox[0] # << >> /\ inbox'[0] = Tail(inbox[0])
              /\ Head(inbox[0]) = "rng/data/get"
              /\ publishBuf[0] # << >>) =>
            /\ Len(outbox') = Len(outbox) + 1
            /\ outbox'[Len(outbox')].topic = "rng/data"
            /\ outbox'[Len(outbox')].body # << >>
            /\ publishBuf'[0] = << >>]_vars

\* a generator whose self-test cannot fail (sample size 0) is FAILED, so
\* it has been OK once and FAILED since; it has answered a state request
\* with "failed" and after that a data request with a data message, and
\* other task code has read bytes from the pool: more bytes were handed
\* out than the ticks in OK wrote to Serial
C18_Witness ==
    /\ selfTestSampleSize[0] = 0
    /\ publishViaSerial[0]
    /\ rngSampleMode[0] = "RSM_FAILED"
    /\ Len(SelectSeq(serial, LAMBDA x : x = "===RNG-START===")) = 1
    /\ Len(outbox) = 2
    /\ outbox[1].topic = "rng/state" /\ outbox[1].body = "failed"
    /\ outbox[2].topic = "rng/data"
    /\ 2 * Len(drained[0]) > Len(SelectSeq(serial, C18_IsHex))

\* the string the message table gives for each generator state
C19_Name(m) ==
    CASE m = "RSM_NONE" -> "none"
      [] m = "RSM_SELF_TEST" -> "self-test"
      [] m = "RSM_OK" -> "ok"
      [] m = "RSM_FAILED" -> "failed"

C19_Modes == {"RSM_NONE", "RSM_SELF_TEST", "RSM_OK", "RSM_FAILED"}

\* a state request is taken from the inbox
C19_StateGet ==
    /\ inbox[0] # << >>
    /\ inbox'[0] = Tail(inbox[0])
    /\ Head(inbox[0]) = "rng/state/get"

\* C19: a state/get request publishes exactly one rng/state message whose
\* body names the current generator state, the four states map one-to-one
\* to none, self-test, ok and failed, and the request leaves the generator
\* state (and the pool) as it was.
C19_StateRequest ==
    /\ [](/\ \A m \in C19_Modes :
                publish(0, [RngState(0) EXCEPT !.mode = m])
                   = [ from |-> 0, topic |-> "rng/state",
                       body |-> C19_Name(m) ]
          /\ \A m, n \in C19_Modes :
                publish(0, [RngState(0) EXCEPT !.mode = m]).body
                   = publish(0, [RngState(0) EXCEPT !.mode = n]).body
                => m = n)
    /\ [][C19_StateGet =>
            /\ outbox' = Append(outbox,
                    [ from |-> 0, topic |-> "rng/state",
                      body |-> C19_Name(rngSampleMode[0]) ])
            /\ UNCHANGED << rngVars, srcVars, serial >>]_vars

\* two state requests were answered, the first while the generator was OK
\* and the second after it had failed
C19_Witness ==
    /\ Len(outbox) = 2
    /\ outbox[1] = [ from |-> 0, topic |-> "rng/state", body |-> "ok" ]
    /\ outbox[2] = [ from |-> 0, topic |-> "rng/state", body |-> "failed" ]
    /\ rngSampleMode[0] = "RSM_FAILED"

C20_START == "===RNG-START==="

C20_STOP == "===RNG-STOP==="

\* the Serial stream read from the left with the frame open or closed: a
\* START only while closed, a STOP and hex characters only while open
RECURSIVE C20_Framed(_, _)
C20_Framed(stream, open) ==
    IF stream = << >> THEN TRUE
    ELSE CASE Head(stream) = C20_START ->
                ~open /\ C20_Framed(Tail(stream), TRUE)
           [] Head(stream) = C20_STOP ->
                open /\ C20_Framed(Tail(stream), FALSE)
           [] OTHER ->
                open /\ C20_Framed(Tail(stream), open)

\* the frame is open at the end of the stream
C20_Open(stream) ==
    LET marks == SelectSeq(stream, LAMBDA x : x \in {C20_START, C20_STOP})
    IN  marks # << >> /\ marks[Len(marks)] = C20_START

\* what a step appended to the Serial stream
C20_Written == SubSeq(serial', Len(serial) + 1, Len(serial'))

\* C20: with publishViaSerial enabled the markers frame the data.  Serial
\* is only ever appended to; START is written exactly by the step that
\* takes the state from SELF_TEST to OK and STOP exactly by the step that
\* leaves OK, each once and with nothing else; so the stream starts with
\* a START, START and STOP alternate, hex data stands only between a
\* START and the next STOP, and the frame is open exactly while the state
\* is OK.
C20_MarkersFrame ==
    /\ [](publishViaSerial[0] =>
            /\ C20_Framed(serial, FALSE)
            /\ C20_Open(serial) <=> rngSampleMode[0] = "RSM_OK")
    /\ [][publishViaSerial[0] =>
            /\ Len(serial') >= Len(serial)
            /\ SubSeq(serial', 1, Len(serial)) = serial
            /\ (rngSampleMode[0] = "RSM_SELF_TEST"
                    /\ rngSampleMode'[0] = "RSM_OK")
                 <=> C20_Written = << C20_START >>
            /\ (rngSampleMode[0] = "RSM_OK" /\ rngSampleMode'[0] # "RSM_OK")
                 <=> C20_Written = << C20_STOP >>
            /\ \A k \in 1..Len(C20_Written) :
                  C20_Written[k] \in {C20_START, C20_STOP}
                  => Len(C20_Written) = 1]_vars

\* a stream with a whole frame and the start of a second one: START, hex
\* data, STOP, START
C20_Witness ==
    /\ publishViaSerial[0]
    /\ Len(serial) >= 5
    /\ serial[1] = C20_START
    /\ C18_IsHex(serial[2])
    /\ serial[Len(serial) - 1] = C20_STOP
    /\ serial[Len(serial)] = C20_START

\* the data part of the Serial stream: hex characters and line breaks
C21_Data == SelectSeq(serial, LAMBDA x : x \notin {C20_START, C20_STOP})

\* the data read from the left, n hex characters into the current line:
\* every line break stands after exactly bytes bytes (two characters
\* each), and no line grows beyond them without its line break
RECURSIVE C21_Lines(_, _, _)
C21_Lines(data, n, bytes) ==
    IF data = << >> THEN n < 2 * bytes
    ELSE IF Head(data) = "\n"
    THEN n = 2 * bytes /\ C21_Lines(Tail(data), 0, bytes)
    ELSE n < 2 * bytes /\ C21_Lines(Tail(data), n + 1, bytes)

\* C21: with publishViaSerial enabled the random data is written to
\* Serial in lines of printLine bytes (40 in the program): a line break
\* follows each printLine hex-encoded bytes, for the first line and for
\* every later one.
C21_LineBreaks == publishViaSerial[0] => C21_Lines(C21_Data, 0, printLine)

(***************************************************************************)
(* The evaluation of the histogram, checked under SpecEval.                *)
(***************************************************************************)
\* the step of loop() that evaluates the histogram of object 0
C22_Evaluates ==
    /\ rngSampleMode[0] = "RSM_SELF_TEST"
    /\ rngSelfTestState[0] = "RST_SAMPLE_DONE"
    /\ pc[0] = "idle"
    /\ pc'[0] = "end"

\* every bin of the histogram of object 0 holds the expected count
C22_Uniform ==
    /\ selfTestSampleSize[0] > 0
    /\ selfTestSampleSize[0] % HIST_SIZE = 0
    /\ \A b \in DOMAIN rngHistogram[0] :
          rngHistogram[0][b] = selfTestSampleSize[0] \div HIST_SIZE

\* C22: for every target sample count that is a positive multiple of 256,
\* a histogram in which each of the 256 byte values was seen exactly
\* target / 256 times is evaluated as passing: the evaluation step takes
\* the generator to OK.
C22_UniformPasses ==
    /\ [](C22_Uniform => evalRngSelfTest(RngState(0)))
    /\ [][(C22_Evaluates /\ C22_Uniform) =>
            /\ rngSelfTestState'[0] = "RST_OK"
            /\ rngSampleMode'[0] = "RSM_OK"]_vars

\* the uniform histogram of a sample size with more than 2^24 samples has
\* been evaluated and the generator is OK
C22_Witness ==
    /\ C22_Uniform
    /\ Cardinality(DOMAIN rngHistogram[0]) = HIST_SIZE
    /\ selfTestSampleSize[0] > 2 ^ FLT_MANT_DIG
    /\ samples[0] = selfTestSampleSize[0]
    /\ rngSelfTestState[0] = "RST_OK"
    /\ rngSampleMode[0] = "RSM_OK"

\* the expected count of a bin
C23_Expected == selfTestSampleSize[0] \div HIST_SIZE

\* one bin holds ten times the expected count, the others no more than
\* the expected count
C23_Tenfold ==
    /\ C23_Expected >= 1
    /\ \E j \in DOMAIN rngHistogram[0] :
          /\ rngHistogram[0][j] = 10 * C23_Expected
          /\ \A b \in DOMAIN rngHistogram[0] \ {j} :
                rngHistogram[0][b] <= C23_Expected

\* C23: a histogram in which one byte value was seen ten times the
\* expected count (target / 256, at least 1) and the others
\* proportionally less is evaluated as failing: the evaluation step takes
\* the generator to FAILED.
C23_TenfoldFails ==
    /\ [](C23_Tenfold => ~evalRngSelfTest(RngState(0)))
    /\ [][(C22_Evaluates /\ C23_Tenfold) =>
            /\ rngSelfTestState'[0] = "RST_FAILED"
            /\ rngSampleMode'[0] = "RSM_FAILED"]_vars

\* the default sample size 25600: one bin with 1000 samples, the others
\* with 97, has been evaluated and the generator is FAILED
C23_Witness ==
    /\ C23_Tenfold
    /\ selfTestSampleSize[0] = 25600
    /\ samples[0] >= selfTestSampleSize[0]
    /\ rngSelfTestState[0] = "RST_FAILED"
    /\ rngSampleMode[0] = "RSM_FAILED"

\* the band of the claim: floor(size / 256 / 2) and floor(size / 256 * 2)
C26_Min == selfTestSampleSize[0] \div (2 * HIST_SIZE)

C26_Max == (2 * selfTestSampleSize[0]) \div HIST_SIZE

\* C26: the evaluation passes if and only if every one of the 256 bin
\* counts h satisfies min <= h <= max, with min = floor(size / 256 / 2)
\* and max = floor(size / 256 * 2); one bin outside makes it FAILED.
C26_Band ==
    [][C22_Evaluates =>
         LET inBand == \A b \in DOMAIN rngHistogram[0] :
                          /\ C26_Min <= rngHistogram[0][b]
                          /\ rngHistogram[0][b] <= C26_Max
         IN  /\ inBand => rngSelfTestState'[0] = "RST_OK"
             /\ ~inBand => rngSelfTestState'[0] = "RST_FAILED"]_vars

(***************************************************************************)
(* The corrector as a function of the candidate bits, checked under        *)
(* SpecRing.                                                               *)
(***************************************************************************)
\* the candidate bits the recorded handler invocations fed to the
\* corrector: the maxBits low bits of each delta, lowest first
RECURSIVE C24_Raw(_)
C24_Raw(arr) ==
    IF arr = << >> THEN << >>
    ELSE [k \in 1 .. maxBits |-> (Head(arr).delta \div (2 ^ (k - 1))) % 2]
            \o C24_Raw(Tail(arr))

\* bits with the two bits of every complete pair exchanged
C24_Mirror(bits) ==
    [k \in 1 .. Len(bits) |->
        IF k % 2 = 1 THEN (IF k + 1 <= Len(bits) THEN bits[k + 1] ELSE bits[k])
        ELSE bits[k - 1]]

C24_Ones(bits) == Len(SelectSeq(bits, LAMBDA b : b = 1))

\* source 0 as initialised at lines 18-26
C24_Start ==
    [ SourceState(0) EXCEPT
        !.pool = [c \in 0 .. (USTD_ENTROPY_POOL_SIZE - 1) |-> 0],
        !.rd = 0, !.wr = 0, !.size = 0, !.currentByte = 0,
        !.currentBitPtr = 0, !.bit_cnt = 0, !.last_bit = 0,
        !.pushed = << >>, !.emitted = << >>, !.arrivals = << >> ]

\* the corrector run over a sequence of candidate bits
RECURSIVE C24_Run(_, _)
C24_Run(s, bits) ==
    IF bits = << >> THEN s
    ELSE C24_Run(VonNeumann(s, Head(bits)), Tail(bits))

\* C24: the corrector removes a constant bias.  The bits emitted so far
\* are the corrector's output for the candidate bits fed so far, and for
\* the mirrored candidate sequence (the two bits of every pair exchanged)
\* the corrector emits the same number of bits, each one complemented.
\* The mirrored sequence has the same length and the same number of ones,
\* so with independent candidate bits of any constant bias it is exactly
\* as probable as the sequence itself: every emitted bit is 1 with the
\* probability with which it is 0, that is 0.5.
C24_Unbiased ==
    LET raw == C24_Raw(arrivals[0])
        mirror == C24_Mirror(raw)
        out == C24_Run(C24_Start, mirror).emitted
    IN  /\ emitted[0] = C24_Run(C24_Start, raw).emitted
        /\ Len(mirror) = Len(raw)
        /\ C24_Ones(mirror) = C24_Ones(raw)
        /\ Len(out) = Len(emitted[0])
        /\ \A k \in 1 .. Len(out) : out[k] = 1 - emitted[0][k]

\* candidate bits with three times as many ones as zeros have been fed;
\* the corrector dropped pairs and emitted ones and zeros
C24_Witness ==
    LET raw == C24_Raw(arrivals[0])
    IN  /\ Len(raw) >= 4 * maxBits
        /\ C24_Ones(raw) >= 3 * (Len(raw) - C24_Ones(raw))
        /\ Len(emitted[0]) >= 2
        /\ 2 * Len(emitted[0]) < Len(raw) - 1
        /\ C24_Ones(emitted[0]) >= 1
        /\ C24_Ones(emitted[0]) < Len(emitted[0])

\* every handler invocation so far found room in the pool and is recorded
C27_AllRecorded == Len(arrivals[0]) = irqs

\* C27 as claimed: the handler derives its candidate bits from the time
\* between two invocations, so two invocations that follow their
\* predecessors at the same distance get the same delta.
C27_InterArrival ==
    C27_AllRecorded =>
        \A j, k \in 2 .. Len(arrivals[0]) :
            arrivals[0][j].curr - arrivals[0][j - 1].curr
               = arrivals[0][k].curr - arrivals[0][k - 1].curr
            => arrivals[0][j].delta = arrivals[0][k].delta

\* C27 amended: the handler keeps no last event time and subtracts
\* nothing.  An invocation that finds room in the pool folds the low 16
\* bits of micros() into the running CRC of its source and takes the low
\* byte of the new CRC as delta, counts it in d_hist and feeds its
\* maxBits low bits to the corrector; the CRC starts at CRC_INIT and is
\* never reset, so every delta is a function of the absolute clock values
\* of all invocations since the start.
C27_DeltaFromCrc ==
    /\ [](emitted[0] = C24_Run(C24_Start, C24_Raw(arrivals[0])).emitted)
    /\ [](arrivals[0] = << >> => crc[0] = CRC_INIT)
    /\ [](arrivals[0] # << >> =>
            arrivals[0][Len(arrivals[0])].delta = crc[0] % 256)
    /\ [][crc'[0] # crc[0] => Len(arrivals'[0]) = Len(arrivals[0]) + 1]_vars
    /\ [][(irqs' = irqs + 1 /\ entropy_pool_size[0] < USTD_ENTROPY_POOL_SIZE) =>
            /\ Len(arrivals'[0]) = Len(arrivals[0]) + 1
            /\ LET a == arrivals'[0][Len(arrivals'[0])]
               IN  /\ crc'[0] = CrcMix(crc[0], a.curr)
                   /\ a.delta = crc'[0] % 256
                   /\ d_hist' = DHistAdd(d_hist, a.delta)]_vars

\* three invocations at the same clock value modulo 2^16, so with equal
\* times between them, and two different deltas
C27_Witness ==
    /\ C27_AllRecorded
    /\ Len(arrivals[0]) >= 3
    /\ arrivals[0][1].curr = arrivals[0][2].curr
    /\ arrivals[0][2].curr = arrivals[0][3].curr
    /\ arrivals[0][2].delta # arrivals[0][3].delta

(***************************************************************************)
(* The retry decision, checked under SpecLive (C28) and Spec (C30).        *)
(***************************************************************************)
\* the tick of object 0 in FAILED: loop() up to the end of the switch
C28_FailedTick ==
    /\ rngSampleMode[0] = "RSM_FAILED"
    /\ pc[0] = "idle"
    /\ pc'[0] = "end"

\* C28: the number of new interrupts the retry decision computes is the
\* true number of handler invocations since the counter was last read,
\* also when the counter has wrapped past its modulus in between
\* (irq_count_total < lastIrqCount); a tick in FAILED starts the retest
\* exactly when that true number exceeds RETRY_IRQS, so a wrap neither
\* starts a retest that is not due nor suppresses one that is.
C28_WrapSafe ==
    /\ [](NewIrqs(0) = unread[0])
    /\ [][C28_FailedTick =>
            /\ rngSampleMode'[0] = "RSM_SELF_TEST" <=> unread[0] > RETRY_IRQS
            /\ rngSampleMode'[0] = "RSM_FAILED" <=> unread[0] <= RETRY_IRQS
         ]_vars

\* the counter has wrapped since object 0 last read it, more than
\* RETRY_IRQS interrupts have arrived since, and the tick has started the
\* retest
C28_Witness ==
    /\ irq_count_total < lastIrqCount[0]
    /\ unread[0] > RETRY_IRQS
    /\ rngSampleMode[0] = "RSM_SELF_TEST"
    /\ rngSelfTestState[0] = "RST_INIT"
    /\ pc[0] = "end"

\* C30: the retry threshold is measured per tick.  The end of every tick,
\* in whatever state, stores the interrupt counter in lastIrqCount, and
\* every tick runs to its end before the next one starts; a tick in
\* FAILED starts the retest if and only if strictly more than RETRY_IRQS
\* interrupts were counted since the end of the previous tick: exactly
\* RETRY_IRQS leave the generator FAILED, and interrupts counted before
\* the end of the previous tick do not add to the count.
C30_PerTick ==
    /\ [][(pc[0] = "end" /\ pc'[0] = "idle") =>
            /\ lastIrqCount'[0] = irq_count_total
            /\ unread'[0] = 0
            /\ rngSampleMode'[0] = rngSampleMode[0]]_vars
    /\ [][pc'[0] # pc[0] =>
            \/ pc[0] = "idle" /\ pc'[0] = "end"
            \/ pc[0] = "end" /\ pc'[0] = "idle"]_vars
    /\ [][lastIrqCount'[0] # lastIrqCount[0] => pc[0] = "end"]_vars
    /\ [](NewIrqs(0) = unread[0])
    /\ [][C28_FailedTick =>
            IF unread[0] > RETRY_IRQS
            THEN rngSampleMode'[0] = "RSM_SELF_TEST"
                 /\ rngSelfTestState'[0] = "RST_INIT"
            ELSE rngSampleMode'[0] = "RSM_FAILED"]_vars

\* twice RETRY_IRQS interrupts have been counted since the generator
\* failed for want of data, RETRY_IRQS of them before the end of the
\* previous tick and RETRY_IRQS since; the tick has run and the generator
\* is still FAILED
C30_Witness ==
    /\ rngSampleMode[0] = "RSM_FAILED"
    /\ pc[0] = "end"
    /\ irqs = 2 * RETRY_IRQS
    /\ arrivals[0] # << >>
    /\ drained[0] = << >>
    /\ lastIrqCount[0] = RETRY_IRQS
    /\ unread[0] = RETRY_IRQS

(***************************************************************************)
(* The work of one tick, checked under Spec.                               *)
(***************************************************************************)
\* the states in which a tick of object 0 has nothing to drain for
C29_NoDrainState ==
    \/ rngSampleMode[0] = "RSM_FAILED"
    \/ /\ rngSampleMode[0] = "RSM_SELF_TEST"
       /\ \/ rngSelfTestState[0] \in {"RST_INIT", "RST_SAMPLE_DONE"}
          \/ /\ rngSelfTestState[0] = "RST_RUNNING"
             /\ samples[0] >= selfTestSampleSize[0]

\* C29: a tick does a bounded amount of buffer work.  loop() calls
\* getRandomData at most once, asking for rngBufSize bytes, which is no
\* more than the pool holds (512), so a tick hands out at most one pool of
\* bytes; a tick in SELF_TEST(INIT), in SELF_TEST(SAMPLE_DONE), in RUNNING
\* with the target reached, or in FAILED calls it not at all and leaves
\* the pool as it is.
C29_BoundedTick ==
    /\ [](rngBufSize <= USTD_ENTROPY_POOL_SIZE)
    /\ [](irqsAttached[0] =>
            LET s == SourceState(0)
                x == loop(RngState(0), s, now, NewIrqs(0))
            IN  /\ x.drains \in {0, 1}
                /\ Len(x.out) <= rngBufSize
                /\ x.drains = 0 => (x.out = << >> /\ x.s = s)
                /\ C29_NoDrainState => x.drains = 0)
    /\ [][(pc[0] = "idle" /\ pc'[0] = "end") =>
            /\ Len(drained'[0]) - Len(drained[0]) <= rngBufSize
            /\ C29_NoDrainState =>
                  UNCHANGED << drained, entropy_pool, entropy_pool_read_ptr,
                               entropy_pool_write_ptr, entropy_pool_size >>
         ]_vars

\* a tick in RUNNING has found the target reached and moved to
\* SAMPLE_DONE; the bytes waiting in the pool were left there
C29_Witness ==
    /\ rngSampleMode[0] = "RSM_SELF_TEST"
    /\ rngSelfTestState[0] = "RST_SAMPLE_DONE"
    /\ pc[0] = "end"
    /\ selfTestSampleSize[0] > 0
    /\ Len(drained[0]) >= selfTestSampleSize[0]
    /\ entropy_pool_size[0] > 0

(***************************************************************************)
(* The end of a self-test run, checked under SpecTest.                     *)
(***************************************************************************)
\* C25: a self-test run never hangs.  With ticks running and time passing,
\* a generator in SELF_TEST reaches OK or FAILED, whatever the pattern in
\* which the bytes arrive: steadily, a byte now and then, in a burst and
\* then no more, or none at all.
C25_SelfTestEnds ==
    (rngSampleMode[0] = "RSM_SELF_TEST")
        ~> (rngSampleMode[0] \in {"RSM_OK", "RSM_FAILED"})

\* no interrupt has ever arrived, and the self-test that waited for
\* selfTestSampleSize > 0 samples has ended in FAILED
C25_Witness ==
    /\ irqs = 0
    /\ irq_count_total = 0
    /\ selfTestSampleSize[0] > 0
    /\ samples[0] = 0
    /\ rngSelfTestState[0] = "RST_FAILED"
    /\ rngSampleMode[0] = "RSM_FAILED"

(***************************************************************************)
(* The cells of buf written by the hex encoding, checked under SpecMsg.    *)
(***************************************************************************)
\* C31: the hex encoding of the publish block never writes outside the
\* output buffer: whenever publish_rng_data encodes a block, of any number
\* of pending bytes up to publishMax, every cell it writes (two hex
\* characters and the terminator for each byte) is a cell of buf.
C31_HexInBuf ==
    [][(publishBuf[0] # << >> /\ publishBuf'[0] = << >>) =>
          HexWrites(Len(publishBuf[0])) \subseteq BufCells]_vars

(***************************************************************************)
(* The data a self-test examines, checked under Spec.                      *)
(***************************************************************************)
\* C32: the self-test cannot pass without examining data: for every
\* configured selfTestSampleSize, a generator that is OK has counted at
\* least one drained byte in the histogram during the test run that made
\* it OK.
C32_OkNeedsData ==
    rngSampleMode[0] = "RSM_OK" =>
        /\ samples[0] > 0
        /\ \E b \in ByteVals : rngHistogram[0][b] > 0

(***************************************************************************)
(* The sample counter of a self-test run, checked under Spec.              *)
(***************************************************************************)
\* C33: throughout a self-test run the sample counter equals the sum of
\* the bins of the histogram, and every byte a sampling tick drains is
\* counted; when the histogram is about to be evaluated (SAMPLE_DONE) the
\* counter has reached the target and exceeds it by less than one drain
\* (rngBufSize bytes): selfTestSampleSize <= samples
\* < selfTestSampleSize + rngBufSize.
C33_SamplesCounted ==
    /\ [](rngSelfTestState[0] \in {"RST_RUNNING", "RST_SAMPLE_DONE"} =>
             samples[0] = C14_Total(rngHistogram[0], ByteVals))
    /\ [](rngSelfTestState[0] = "RST_SAMPLE_DONE" =>
             /\ selfTestSampleSize[0] <= samples[0]
             /\ samples[0] < selfTestSampleSize[0] + rngBufSize)
    /\ [][(TickOf(0) /\ rngSelfTestState[0] = "RST_RUNNING") =>
             /\ samples'[0] = samples[0] + Len(drained'[0]) - Len(drained[0])
             /\ samples[0] >= selfTestSampleSize[0] => drained' = drained]_vars

\* the histogram is about to be evaluated after a run whose last drain
\* took the counter as far past the target as a drain can
C33_Witness ==
    /\ rngSelfTestState[0] = "RST_SAMPLE_DONE"
    /\ selfTestSampleSize[0] > 0
    /\ samples[0] = selfTestSampleSize[0] + rngBufSize - 1

(***************************************************************************)
(* Where the drained bytes go, checked under SpecSerial.                   *)
(***************************************************************************)
\* the bytes handed out by the pool of source 0 in this step
C34_Out == SubSeq(drained'[0], Len(drained[0]) + 1, Len(drained'[0]))

\* the characters Serial shows for a sequence of bytes
RECURSIVE C34_Hex(_)
C34_Hex(out) ==
    IF out = << >> THEN << >>
    ELSE SerialPrintByte(Head(out)) \o C34_Hex(Tail(out))

\* C34: only bytes drained while the state is OK enter the publish block
\* or the Serial stream.  A step that adds to the publish block or writes
\* hex data to Serial is a tick in state OK, and what it adds or writes
\* are bytes that very tick drained; a tick in SELF_TEST counts every
\* byte it drains in the histogram and leaves the publish block and the
\* Serial data alone; a tick in FAILED drains nothing, leaves the pool,
\* the publish block and Serial as they were.
C34_OnlyOkPublished ==
    [][/\ (publishBuf'[0] # publishBuf[0] /\ publishBuf'[0] # << >>) =>
             /\ TickOf(0)
             /\ rngSampleMode[0] = "RSM_OK"
             /\ \E n \in 1 .. Len(C34_Out) :
                   publishBuf'[0] = publishBuf[0] \o SubSeq(C34_Out, 1, n)
       /\ SelectSeq(C20_Written, C18_IsHex) # << >> =>
             /\ TickOf(0)
             /\ rngSampleMode[0] = "RSM_OK"
             /\ SelectSeq(C20_Written, C18_IsHex) = C34_Hex(C34_Out)
       /\ (TickOf(0) /\ rngSampleMode[0] = "RSM_SELF_TEST") =>
             /\ publishBuf'[0] = publishBuf[0]
             /\ SelectSeq(C20_Written, C18_IsHex) = << >>
             /\ C34_Out # << >> =>
                   /\ rngHistogram'[0] = CountBytes(RngState(0), C34_Out).hist
                   /\ samples'[0] = samples[0] + Len(C34_Out)
       /\ (TickOf(0) /\ rngSampleMode[0] = "RSM_FAILED") =>
             /\ C34_Out = << >>
             /\ UNCHANGED << entropy_pool, entropy_pool_read_ptr,
                             entropy_pool_size, publishBuf, serial >>]_vars

\* a generator that writes to Serial is OK after a self-test that counted
\* bytes; ticks in OK have put bytes into the publish block and hex data
\* on Serial, and the bytes counted by the self-test are in neither
C34_Witness ==
    /\ publishViaSerial[0]
    /\ rngSampleMode[0] = "RSM_OK"
    /\ samples[0] > 0
    /\ publishBuf[0] # << >>
    /\ SelectSeq(serial, C18_IsHex) # << >>
    /\ Len(drained[0]) >= samples[0] + Len(publishBuf[0])
    /\ Len(SelectSeq(serial, C18_IsHex)) <= 2 * (Len(drained[0]) - samples[0])

(***************************************************************************)
(* The publish block, checked under SpecBlock.                             *)
(***************************************************************************)
\* the first n elements of a sequence, all of it if it has fewer
C35_First(seq, n) == SubSeq(seq, 1, C12_Min(n, Len(seq)))

\* C35: the fill level of the publish block stays within 0 .. publishMax.
\* A tick in OK appends the bytes it drained, in their order, as far as
\* the block has room, and discards the rest; nothing else adds to the
\* block and only the publication empties it.  So a block that is
\* published holds the oldest (at most publishMax) bytes drained in OK
\* since the publication before, in FIFO order.
C35_BlockFifo ==
    /\ [](Len(publishBuf[0]) \in 0 .. publishMax)
    /\ [][(TickOf(0) /\ rngSampleMode[0] = "RSM_OK") =>
             publishBuf'[0] =
                 C35_First(publishBuf[0] \o C34_Out, publishMax)]_vars
    /\ [][publishBuf'[0] # publishBuf[0] =>
             \/ TickOf(0) /\ rngSampleMode[0] = "RSM_OK"
             \/ /\ inbox[0] # << >>
                /\ Head(inbox[0]) = "rng/data/get"
                /\ inbox'[0] = Tail(inbox[0])
                /\ publishBuf'[0] = << >>
                /\ Len(outbox') = Len(outbox) + 1
                /\ outbox'[Len(outbox')].topic = "rng/data"
                /\ HexFits(Len(publishBuf[0])) =>
                      outbox'[Len(outbox')].body = HexText(publishBuf[0])]_vars

\* every byte handed out by the pool was drained in OK (all of them are on
\* Serial) and nothing was published yet; they are more than the block
\* holds: the block is full with the oldest of them and the rest is gone
C35_Witness ==
    /\ publishViaSerial[0]
    /\ Len(SelectSeq(serial, C18_IsHex)) = 2 * Len(drained[0])
    /\ Len(drained[0]) > publishMax
    /\ outbox = << >>
    /\ publishBuf[0] = SubSeq(drained[0], 1, publishMax)

(***************************************************************************)
(* begin(), checked under SpecBegin.                                       *)
(***************************************************************************)
\* C36: begin() with an interrupt index outside the range attaches no
\* interrupt, registers no task and starts no self-test: the state stays
\* NONE, no tick ever runs and no handler invocation is ever counted.
\* With an index inside the range it attaches the handler of exactly that
\* index and leaves the state SELF_TEST with sub-state INIT; the
\* interrupts then work on the source of that index only.
C36_Begin ==
    /\ [](interruptIndex_input[0] \notin Sources =>
             /\ ~irqsAttached[0]
             /\ rngSampleMode[0] = "RSM_NONE"
             /\ rngSelfTestState[0] = "RST_NONE"
             /\ pc[0] = "idle"
             /\ irq_count_total = 0)
    /\ [][(irqsAttached'[0] # irqsAttached[0]
              \/ publishViaSerial'[0] # publishViaSerial[0]) =>
             /\ publishViaSerial'[0] = publishViaSerial_arg[0]
             /\ IF interruptIndex_input[0] \in Sources
                THEN /\ irqsAttached'[0]
                     /\ rngSampleMode'[0] = "RSM_SELF_TEST"
                     /\ rngSelfTestState'[0] = "RST_INIT"
                ELSE UNCHANGED << irqsAttached, rngVars >>
             /\ UNCHANGED << srcVars, irq_count_total, pc >>]_vars
    /\ [](\A i \in Sources :
             Attached(i) <=> irqsAttached[0] /\ interruptIndex_input[0] = i)
    /\ [](\A i \in Sources :
             ~Attached(i) =>
                /\ crc[i] = CRC_INIT
                /\ entropy_pool_size[i] = 0
                /\ bit_cnt[i] = 0)

\* begin() has run on an object whose interrupt index is outside the
\* range: it took over the argument _publishViaSerial and returned
C36_Witness ==
    /\ interruptIndex_input[0] \notin Sources
    /\ publishViaSerial_arg[0]
    /\ publishViaSerial[0]
    /\ rngSampleMode[0] = "RSM_NONE"
    /\ ~irqsAttached[0]

(***************************************************************************)
(* The sources are apart, checked under SpecPair.                          *)
(***************************************************************************)
\* C37: a handler invocation for source i leaves every per-source variable
\* of every other source j as it was: the ring contents, the read and the
\* write cursor, the count, the accumulator byte and its bit count, the
\* held bit and the pair flag, and the CRC state.
C37_OtherSourcesUnchanged ==
    [][\A i \in Sources, curr \in MicrosValues :
          ustd_rng_pirq_master(i, curr) =>
             \A j \in Sources \ {i} :
                /\ entropy_pool'[j] = entropy_pool[j]
                /\ entropy_pool_read_ptr'[j] = entropy_pool_read_ptr[j]
                /\ entropy_pool_write_ptr'[j] = entropy_pool_write_ptr[j]
                /\ entropy_pool_size'[j] = entropy_pool_size[j]
                /\ currentByte'[j] = currentByte[j]
                /\ currentBitPtr'[j] = currentBitPtr[j]
                /\ bit_cnt'[j] = bit_cnt[j]
                /\ last_bit'[j] = last_bit[j]
                /\ crc'[j] = crc[j]]_vars

\* the handlers of both sources have run and appended bytes, and the two
\* sources stand at different points
C37_Witness ==
    /\ entropy_pool_size[0] > 0
    /\ entropy_pool_size[1] > 0
    /\ crc[0] # crc[1]
    /\ entropy_pool[0] # entropy_pool[1]
    /\ entropy_pool_write_ptr[0] # entropy_pool_write_ptr[1]

(***************************************************************************)
(* The ring of a source, checked under SpecCrit.                           *)
(***************************************************************************)
\* C38: in every state of the ring of a source that the handler can run
\* in or a call of getRandomData can start in (interrupts are enabled),
\* the distance from the read cursor to the write cursor, modulo the pool
\* size, is the count modulo the pool size; with count 0 the cursors are
\* equal; and the unread bytes are exactly the count cells from the read
\* cursor on: they are what the handler appended and getRandomData has
\* not taken out yet, oldest first.  (Inside the section of getRandomData,
\* with interrupts off, line 139 has advanced the cursor before line 140
\* takes the byte off the count.)
C38_RingInvariant ==
    intr =>
        LET s == SourceState(0)
        IN  /\ (s.wr + USTD_ENTROPY_POOL_SIZE - s.rd) % USTD_ENTROPY_POOL_SIZE
                   = s.size % USTD_ENTROPY_POOL_SIZE
            /\ s.size = 0 => s.wr = s.rd
            /\ pushed[0] = (drained[0] \o call.pBuf) \o C12_Unread(s)

\* a full ring whose cursors have met away from cell 0, after a call of
\* getRandomData has returned: the count is not 0 and the cursors are
\* equal
C38_Witness ==
    /\ intr
    /\ call.pc = "none"
    /\ drained[0] # << >>
    /\ entropy_pool_size[0] = USTD_ENTROPY_POOL_SIZE
    /\ entropy_pool_write_ptr[0] = entropy_pool_read_ptr[0]
    /\ entropy_pool_read_ptr[0] # 0

(***************************************************************************)
(* One handler invocation, checked under SpecRing.                         *)
(***************************************************************************)
\* C39: at every handler exit the pair flag bit_cnt is 0 or 1 and the bit
\* count of the accumulator is below the bits of a byte.  An invocation
\* that finds room feeds exactly maxBits = 3 candidate bits to the
\* corrector (the pair flag moves on by 3), emits at most 2 bits and
\* appends at most one byte; so the count, which was below the pool size,
\* does not exceed it after the increment, and the clamp that follows the
\* increment changes nothing.  An invocation on a full pool emits and
\* appends nothing.
C39_HandlerBounds ==
    /\ [](/\ bit_cnt[0] \in {0, 1}
          /\ currentBitPtr[0] \in 0 .. (BYTE_BITS - 1)
          /\ entropy_pool_size[0] <= USTD_ENTROPY_POOL_SIZE)
    /\ [][irq_count_total' # irq_count_total =>
             LET bits == Len(emitted'[0]) - Len(emitted[0])
                 bytes == Len(pushed'[0]) - Len(pushed[0])
             IN  IF entropy_pool_size[0] < USTD_ENTROPY_POOL_SIZE
                 THEN /\ bit_cnt'[0] = (bit_cnt[0] + maxBits) % 2
                      /\ bits \in 0 .. ((bit_cnt[0] + maxBits) \div 2)
                      /\ bits <= 2
                      /\ bytes \in {0, 1}
                      /\ entropy_pool_size[0] + bytes <= USTD_ENTROPY_POOL_SIZE
                      /\ entropy_pool_size'[0] = entropy_pool_size[0] + bytes
                 ELSE bits = 0 /\ bytes = 0]_vars

\* the second invocation since the start emitted two bits (the first can
\* emit one only) and they made a byte
C39_Witness ==
    /\ Len(arrivals[0]) = 2
    /\ Len(emitted[0]) = 3
    /\ Len(pushed[0]) = 1

(***************************************************************************)
(* The two state variables, checked under Spec.                            *)
(***************************************************************************)
\* C40: after a successful begin() the generator state is never NONE
\* again, and between the ticks the state and the sub-state of the
\* self-test agree: OK goes with RST_OK, SELF_TEST with INIT, RUNNING or
\* SAMPLE_DONE, and FAILED with RST_FAILED or RST_OK.
C40_StatesAgree ==
    /\ [](\A r \in Sources :
            /\ irqsAttached[r] => rngSampleMode[r] # "RSM_NONE"
            /\ rngSampleMode[r] = "RSM_OK" =>
                  rngSelfTestState[r] = "RST_OK"
            /\ rngSampleMode[r] = "RSM_SELF_TEST" =>
                  rngSelfTestState[r] \in
                      {"RST_INIT", "RST_RUNNING", "RST_SAMPLE_DONE"}
            /\ rngSampleMode[r] = "RSM_FAILED" =>
                  rngSelfTestState[r] \in {"RST_FAILED", "RST_OK"})
    /\ [][\A r \in Sources :
            rngSampleMode[r] # "RSM_NONE" => rngSampleMode'[r] # "RSM_NONE"]_vars

\* a generator that passed a self-test on data and then ran dry: FAILED
\* with the sub-state still RST_OK, between two ticks
C40_Witness ==
    /\ pc[0] = "idle"
    /\ selfTestSampleSize[0] > 0
    /\ rngSampleMode[0] = "RSM_FAILED"
    /\ rngSelfTestState[0] = "RST_OK"

=============================================================================
